---- MODULE Spec2Model ----
(***************************************************************************)
(* The Nine card game of browser-game-collection: NineGameController.js.   *)
(* The controller's state object, its event handlers (card click, confirm, *)
(* New Game) and the two timer continuations of the async handleConfirm    *)
(* (the sleep(1000) "CPU is thinking" delay and the sleep(2000) reveal     *)
(* delay) are modelled as one state machine.  A step of the machine is one *)
(* browser task: a handler run to completion or to its next await.         *)
(***************************************************************************)
EXTENDS Integers, Sequences, FiniteSets, Bags, TLC

(***************************************************************************)
(* Bounds of the model.                                                    *)
(***************************************************************************)
\* The player only selects among the MaxClickRank highest cards still held.
MaxClickRank == 1
\* Math.random() is drawn from { k / RandomResolution : k \in 0..RandomResolution-1 }.
RandomResolution == 2
\* How many times New Game (resetGame) is pressed.
MaxResets == 1

(***************************************************************************)
(* JavaScript values.  Cards are 1..9 and scores are sums of cards; null,  *)
(* undefined, NaN and the two infinities are encoded as integers outside   *)
(* every number the game can reach, and the arithmetic below treats them   *)
(* as JavaScript does.                                                     *)
(***************************************************************************)
Null == -1001
Undefined == -1002
NaN == -1003
NegInfinity == -1000
PosInfinity == 1000

NumCards == 9
AllCards == <<1, 2, 3, 4, 5, 6, 7, 8, 9>>
CardValues == 1..NumCards

\* The number an operand of +, - or > converts to: null to 0, undefined to NaN.
ToNumber(v) ==
  IF v = Null THEN 0 ELSE IF v = Undefined THEN NaN ELSE v

\* a + b on numbers.
JsAdd(a, b) ==
  LET x == ToNumber(a)
      y == ToNumber(b)
  IN  IF x = NaN \/ y = NaN THEN NaN
      ELSE IF x = NegInfinity \/ y = NegInfinity THEN NegInfinity
      ELSE IF x = PosInfinity \/ y = PosInfinity THEN PosInfinity
      ELSE x + y

\* a - b on numbers.
JsSub(a, b) ==
  LET x == ToNumber(a)
      y == ToNumber(b)
  IN  IF x = NaN \/ y = NaN THEN NaN
      ELSE IF y = NegInfinity THEN PosInfinity
      ELSE IF y = PosInfinity \/ x = NegInfinity THEN NegInfinity
      ELSE IF x = PosInfinity THEN PosInfinity
      ELSE x - y

\* a > b on numbers; every comparison with NaN is false.
JsGt(a, b) ==
  LET x == ToNumber(a)
      y == ToNumber(b)
  IN  x /= NaN /\ y /= NaN /\ x > y

(***************************************************************************)
(* Array helpers.                                                          *)
(***************************************************************************)
\* array.filter(c => c !== v)
FilterOut(array, v) == SelectSeq(array, LAMBDA c : c /= v)

\* array.slice(-n)
SliceLast(array, n) ==
  IF Len(array) <= n THEN array ELSE SubSeq(array, Len(array) - n + 1, Len(array))

\* array.slice(0, n)
SliceFirst(array, n) ==
  IF Len(array) <= n THEN array ELSE SubSeq(array, 1, n)

SeqToSet(array) == {array[i] : i \in 1..Len(array)}

\* Math.max(...array); -Infinity for an empty array.
MathMax(array) ==
  IF Len(array) = 0 THEN NegInfinity
  ELSE CHOOSE m \in SeqToSet(array) : \A x \in SeqToSet(array) : x <= m

\* A value of Math.random() is a fraction <<numerator, denominator>> in [0, 1).
RandomDraws == {<<k, RandomResolution>> : k \in 0..(RandomResolution - 1)}

\* array[Math.floor(Math.random() * array.length)]; undefined for an empty array.
randomChoice(array, r) ==
  IF Len(array) = 0 THEN Undefined
  ELSE array[((r[1] * Len(array)) \div r[2]) + 1]

\* Math.random() < 0.6
BelowSixTenths(r) == 10 * r[1] < 6 * r[2]

(***************************************************************************)
(* The state object (constructor, lines 19-58) and the timers pending in   *)
(* the browser.  playerUsedCards and cpuUsedCards are arrays that the code *)
(* only pushes to and reads through includes(): they are kept as bags.     *)
(*                                                                         *)
(* timers holds the pending setTimeout timers: the sleep(1000) of a        *)
(* handleConfirm ("thinking"), the sleep(2000) of revealCards ("reveal")   *)
(* and the setTimeout(..., 1000) of handleGameComplete ("modal", with the  *)
(* values its closure captured).  A timer fires when its delay has passed, *)
(* so the order in which timers fire is the order of their due times.  The *)
(* sequence is ordered by the fraction of a second each timer has run      *)
(* beyond its whole seconds (elapsed): a timer just started is first, and  *)
(* the last timer is the next one to complete a whole second.              *)
(*                                                                         *)
(* History: match counts the startGame() calls after init (the match a     *)
(* timer was created in is kept with it), lastOp names the last handler    *)
(* run and how it ended, tiedPoints and awardedPoints sum playerCard +     *)
(* cpuCard over the tied and over the other rounds of the current match,   *)
(* resultModal is the result object last handed to showResultModal.        *)
(*                                                                         *)
(* storage is the persistence behind gameDataService: the high score it    *)
(* holds (Null when none is stored), how many times saveNineGameScore was  *)
(* called, and whether the last write failed.                              *)
(***************************************************************************)
VARIABLES
  playerCards, cpuCards, playerUsedCards, cpuUsedCards,
  currentTurn, isPlayerTurn,
  playerSelectedCard, cpuSelectedCard,
  lastPlayerCard, lastCpuCard, lastRoundResult,
  playerScore, cpuScore, highScore,
  gamePhase, isLocked,
  timers,
  match, lastOp, tiedPoints, awardedPoints, resultModal,
  storage,
  ticTacToe, memoryGame, whackAMole, localStorage

\* The state of the Nine controller, its timers and its history.
nineGame ==
  <<playerCards, cpuCards, playerUsedCards, cpuUsedCards,
    currentTurn, isPlayerTurn, playerSelectedCard, cpuSelectedCard,
    lastPlayerCard, lastCpuCard, lastRoundResult,
    playerScore, cpuScore, highScore, gamePhase, isLocked,
    timers, match, lastOp, tiedPoints, awardedPoints, resultModal,
    storage>>

\* The other controllers of the collection and the browser's localStorage: each
\* page runs one controller, so while one game is played the others stay as
\* constructed.
otherGames == <<ticTacToe, memoryGame, whackAMole, localStorage>>

vars == <<nineGame, otherGames>>

\* What the actions of each page leave unchanged.
exceptTicTacToe == <<nineGame, memoryGame, whackAMole, localStorage>>
exceptMemoryGame == <<nineGame, ticTacToe, whackAMole>>
exceptWhackAMole == <<nineGame, ticTacToe, memoryGame>>
exceptStorage == <<nineGame, ticTacToe, memoryGame, whackAMole>>

(***************************************************************************)
(* ticTacToe is the state object of the TicTacToeController (board,        *)
(* currentPlayer, playerSymbol, cpuSymbol, gameOver, winner, sessionStats, *)
(* cpuThinking, symbolSelected) together with what the browser holds for   *)
(* it: selectionShown (the symbol-selection element is not hidden) and     *)
(* pendingMoves, the number of pending setTimeout timers, whose callbacks  *)
(* all are makeCPUMove() and capture nothing.  History: games counts the   *)
(* startGame() calls, lastMark is who placed the last mark of the game,    *)
(* lastOp the last handler run and how it ended.                           *)
(***************************************************************************)
EmptyBoard == [i \in 0..8 |-> ""]

\* The state after the constructor and init(): the symbol selection is shown.
TicTacToeConstructed ==
  [board |-> EmptyBoard,
   currentPlayer |-> "X",
   playerSymbol |-> "X",
   cpuSymbol |-> "O",
   gameOver |-> FALSE,
   winner |-> "null",
   sessionStats |-> [wins |-> 0, losses |-> 0, draws |-> 0],
   cpuThinking |-> FALSE,
   symbolSelected |-> FALSE,
   selectionShown |-> TRUE,
   pendingMoves |-> 0,
   games |-> 0,
   lastMark |-> "none",
   lastOp |-> [handler |-> "init", outcome |-> "done"]]

(***************************************************************************)
(* localStorage holds the items of the browser's localStorage under the    *)
(* keys the model uses (an item is absent, or present with its string as a *)
(* sequence of characters), and lastCall, the last StorageService call     *)
(* with its arguments and result.  JavaScript values that may be strings   *)
(* are records of a type, a number and a sequence of characters.           *)
(***************************************************************************)
StorageKeys == {"memory-game_highscore", "whack-a-mole_highscore", "nonexistent"}

AbsentItem == [present |-> FALSE, chars |-> <<>>]

JsNumber(n) == [type |-> "number", value |-> n, chars |-> <<>>]
JsNull == [type |-> "null", value |-> 0, chars |-> <<>>]
JsUndefined == [type |-> "undefined", value |-> 0, chars |-> <<>>]
JsString(chars) == [type |-> "string", value |-> 0, chars |-> chars]

NoCall ==
  [op |-> "none", key |-> "nonexistent", absent |-> FALSE,
   argument |-> JsUndefined, result |-> JsUndefined]

\* The browser's localStorage before anything was saved.
EmptyLocalStorage ==
  [items |-> [k \in StorageKeys |-> AbsentItem], lastCall |-> NoCall]

(***************************************************************************)
(* memoryGame is the state object of the MemoryGameController (cards,      *)
(* flippedIndices, matchedIndices, moves, isLocked, gameStarted,           *)
(* gameComplete, highScore) together with timers, the pending setTimeout   *)
(* timers in the order they were started: the flip-back of handleMismatch  *)
(* (1000 ms, with the two indices its closure captured) and the delayed    *)
(* handleGameComplete of handleMatch (500 ms).  matchedIndices is an array *)
(* the code only pushes to and reads through includes() and length: it is  *)
(* kept as a set.  flipped is the set of card elements that carry the      *)
(* 'flipped' class.  History: games counts the startGame() calls (the game *)
(* a timer was started in is kept with it),                                *)
(* submitted is the sequence of scores passed to saveMemoryGameScore,      *)
(* mismatches counts the handleMismatch() calls of the game in progress,   *)
(* lastOp the last handler run and how it ended.                           *)
(***************************************************************************)
\* The state after the constructor, before init().
MemoryGameConstructed ==
  [cards |-> <<>>,
   flippedIndices |-> <<>>,
   matchedIndices |-> {},
   flipped |-> {},
   moves |-> 0,
   isLocked |-> FALSE,
   gameStarted |-> FALSE,
   gameComplete |-> FALSE,
   highScore |-> Null,
   timers |-> <<>>,
   games |-> 0,
   submitted |-> <<>>,
   mismatches |-> 0,
   lastOp |-> [handler |-> "constructor", outcome |-> "done"]]

(***************************************************************************)
(* whackAMole is the state object of the WhackAMoleController (holes,      *)
(* score, timeRemaining, gameActive, gameStarted, highScore, and whether   *)
(* timerInterval, spawnTimeout and each moleTimeouts[i] hold a reference)  *)
(* together with what the browser holds for it: intervals, the number of   *)
(* running setInterval countdowns; hideTimers, the pending auto-hide       *)
(* timers in the order they were started (all of 1000 ms), each with the   *)
(* hole index it captured and whether moleTimeouts[index] refers to it;    *)
(* spawnTimers, the number of pending spawn timers (spawnTimeout is        *)
(* "pending" when it refers to one of them, "fired" when it refers to one  *)
(* that has fired); modalTimers, the pending result timers with the        *)
(* isNewRecord each captured; startEnabled, whether the Start button is    *)
(* enabled; modal, the result shown.  A reference that is set is to the    *)
(* timer started last.  History: each auto-hide timer keeps whether the    *)
(* mole it was started for is still the one visible in its hole; games     *)
(* counts the startGame() calls, endGames the endGame() calls since the    *)
(* last startGame(), lastOp the last handler run.                          *)
(***************************************************************************)
NumHoles == 9

NoHoles == [i \in 0..(NumHoles - 1) |-> FALSE]

WhackNoModal == [shown |-> FALSE, score |-> 0, highScore |-> 0, isNewRecord |-> FALSE]

\* The state after the constructor and init(): no high score stored.
WhackAMoleConstructed ==
  [holes |-> NoHoles,
   score |-> 0,
   timeRemaining |-> 30,
   gameActive |-> FALSE,
   gameStarted |-> FALSE,
   timerInterval |-> FALSE,
   moleTimeouts |-> NoHoles,
   spawnTimeout |-> "null",
   highScore |-> 0,
   intervals |-> 0,
   hideTimers |-> <<>>,
   spawnTimers |-> 0,
   modalTimers |-> <<>>,
   startEnabled |-> TRUE,
   modal |-> WhackNoModal,
   games |-> 0,
   endGames |-> 0,
   lastOp |-> [handler |-> "init", outcome |-> "done", index |-> 0]]

OtherGamesConstructed ==
  /\ ticTacToe = TicTacToeConstructed
  /\ memoryGame = MemoryGameConstructed
  /\ whackAMole = WhackAMoleConstructed
  /\ localStorage = EmptyLocalStorage

\* The fields of the state object that startGame() assigns.
matchState ==
  <<playerCards, cpuCards, playerUsedCards, cpuUsedCards,
    currentTurn, isPlayerTurn, playerSelectedCard, cpuSelectedCard,
    lastPlayerCard, lastCpuCard, lastRoundResult,
    playerScore, cpuScore, gamePhase, isLocked>>

\* The whole state object.
gameState == <<matchState, highScore>>

\* lastRoundResult: null, kept as a result with no winner and no points.
NoResult == [winner |-> "none", playerPoints |-> 0, cpuPoints |-> 0]

\* No result has been handed to showResultModal yet.
NoModal ==
  [winner |-> "none", playerScore |-> 0, cpuScore |-> 0,
   highScore |-> Null, isNewRecord |-> FALSE, match |-> 0]

\* The persistence with no high score stored and no write made.
EmptyStorage == [highScore |-> Null, writes |-> 0, failed |-> FALSE]

\* gameDataService.loadNineGameHighScore(): the stored high score, or null.
loadNineGameHighScore == EmptyStorage.highScore

\* gameDataService.saveNineGameScore(score): the persistence after the call; the
\* write succeeds (ok) or fails and leaves the stored value as it was.
saveNineGameScore(score, ok) ==
  [highScore |-> IF ok THEN score ELSE storage.highScore,
   writes |-> storage.writes + 1,
   failed |-> ~ok]

Op(handler, outcome) == [handler |-> handler, outcome |-> outcome]

\* startGame(): the values it assigns to the state object.
startGame ==
  /\ playerCards' = AllCards
  /\ cpuCards' = AllCards
  /\ playerUsedCards' = EmptyBag
  /\ cpuUsedCards' = EmptyBag
  /\ currentTurn' = 1
  /\ isPlayerTurn' = TRUE
  /\ playerSelectedCard' = Null
  /\ cpuSelectedCard' = Null
  /\ lastPlayerCard' = Null
  /\ lastCpuCard' = Null
  /\ lastRoundResult' = NoResult
  /\ playerScore' = 0
  /\ cpuScore' = 0
  /\ gamePhase' = "selection"
  /\ isLocked' = FALSE

\* The state after the constructor and init(): no stored high score, startGame() run.
Init ==
  /\ playerCards = AllCards
  /\ cpuCards = AllCards
  /\ playerUsedCards = EmptyBag
  /\ cpuUsedCards = EmptyBag
  /\ currentTurn = 1
  /\ isPlayerTurn = TRUE
  /\ playerSelectedCard = Null
  /\ cpuSelectedCard = Null
  /\ lastPlayerCard = Null
  /\ lastCpuCard = Null
  /\ lastRoundResult = NoResult
  /\ playerScore = 0
  /\ cpuScore = 0
  /\ highScore = loadNineGameHighScore
  /\ gamePhase = "selection"
  /\ isLocked = FALSE
  /\ timers = <<>>
  /\ match = 0
  /\ lastOp = Op("init", "done")
  /\ tiedPoints = 0
  /\ awardedPoints = 0
  /\ resultModal = NoModal
  /\ storage = EmptyStorage
  /\ OtherGamesConstructed

(***************************************************************************)
(* handleCardClick(index)                                                  *)
(***************************************************************************)
\* CardClickRejection without the used-card check of line 228.
CardClickRejection_NoUsedCheck(index) ==
  IF isLocked THEN "locked"
  ELSE IF gamePhase /= "selection" THEN "wrongPhase"
  ELSE "none"

\* The early return handleCardClick takes, or "none".
CardClickRejection(index) ==
  IF isLocked THEN "locked"
  ELSE IF gamePhase /= "selection" THEN "wrongPhase"
  ELSE IF BagIn(index + 1, playerUsedCards) THEN "usedCard"
  ELSE "none"

\* handleCardClick without the toggle of lines 231-232: an accepted click always
\* selects the card.
handleCardClick_NoToggle(index) ==
  /\ IF CardClickRejection(index) /= "none"
       THEN /\ UNCHANGED playerSelectedCard
            /\ lastOp' = Op("handleCardClick", CardClickRejection(index))
       ELSE /\ playerSelectedCard' = index + 1
            /\ lastOp' = Op("handleCardClick", "selected")
  /\ UNCHANGED <<playerCards, cpuCards, playerUsedCards, cpuUsedCards,
                 currentTurn, isPlayerTurn, cpuSelectedCard,
                 lastPlayerCard, lastCpuCard, lastRoundResult,
                 playerScore, cpuScore, highScore, gamePhase, isLocked,
                 timers, match, tiedPoints, awardedPoints, resultModal,
                 storage>>
  /\ UNCHANGED otherGames

handleCardClick(index) ==
  /\ IF CardClickRejection(index) /= "none"
       THEN /\ UNCHANGED playerSelectedCard
            /\ lastOp' = Op("handleCardClick", CardClickRejection(index))
       ELSE IF playerSelectedCard = index + 1
         THEN /\ playerSelectedCard' = Null
              /\ lastOp' = Op("handleCardClick", "deselected")
         ELSE /\ playerSelectedCard' = index + 1
              /\ lastOp' = Op("handleCardClick", "selected")
  /\ UNCHANGED <<playerCards, cpuCards, playerUsedCards, cpuUsedCards,
                 currentTurn, isPlayerTurn, cpuSelectedCard,
                 lastPlayerCard, lastCpuCard, lastRoundResult,
                 playerScore, cpuScore, highScore, gamePhase, isLocked,
                 timers, match, tiedPoints, awardedPoints, resultModal,
                 storage>>
  /\ UNCHANGED otherGames

(***************************************************************************)
(* handleConfirm(), up to its first await: the validation, the lock and    *)
(* the start of sleep(1000).                                               *)
(***************************************************************************)
\* ConfirmRejection without the lock check of line 249.
ConfirmRejection_NoLockCheck ==
  IF playerSelectedCard = Null THEN "noSelection"
  ELSE IF gamePhase /= "selection" THEN "wrongPhase"
  ELSE "none"

\* The early return handleConfirm takes, or "none".
ConfirmRejection ==
  IF isLocked THEN "locked"
  ELSE IF playerSelectedCard = Null THEN "noSelection"
  ELSE IF gamePhase /= "selection" THEN "wrongPhase"
  ELSE "none"

\* The timer of sleep(1000), just started.
ThinkingTimer ==
  [kind |-> "thinking", match |-> match, winner |-> "none",
   isNewRecord |-> FALSE, elapsed |-> 0]

handleConfirm ==
  /\ IF ConfirmRejection /= "none"
       THEN /\ UNCHANGED <<isLocked, timers>>
            /\ lastOp' = Op("handleConfirm", ConfirmRejection)
       ELSE /\ isLocked' = TRUE
            /\ timers' = <<ThinkingTimer>> \o timers
            /\ lastOp' = Op("handleConfirm", "accepted")
  /\ UNCHANGED <<playerCards, cpuCards, playerUsedCards, cpuUsedCards,
                 currentTurn, isPlayerTurn, playerSelectedCard, cpuSelectedCard,
                 lastPlayerCard, lastCpuCard, lastRoundResult,
                 playerScore, cpuScore, highScore, gamePhase,
                 match, tiedPoints, awardedPoints, resultModal,
                 storage>>
  /\ UNCHANGED otherGames

(***************************************************************************)
(* cpuSelectCard(): the card it returns when Math.random() yields r1 for   *)
(* the first draw it makes and r2 for the second.                          *)
(***************************************************************************)
\* cpuSelectCard trying the endgame rule before the desperation rule.
cpuSelectCard_EndgameFirst(r1, r2) ==
  LET availableCards == cpuCards
      remainingTurns == 10 - currentTurn
      scoreDiff == JsSub(cpuScore, playerScore)
  IN  IF remainingTurns <= 3 /\ scoreDiff <= 0
        THEN MathMax(availableCards)
      ELSE IF scoreDiff < -15 /\ Len(availableCards) > 3
        THEN randomChoice(SliceLast(availableCards, 3), r1)
      ELSE randomChoice(availableCards, r1)

\* cpuSelectCard with the preservation rule picking among the last three cards.
cpuSelectCard_PreservationPicksHighest(r1, r2) ==
  LET availableCards == cpuCards
      scoreDiff == JsSub(cpuScore, playerScore)
  IN  IF scoreDiff < -15 /\ Len(availableCards) > 3
        THEN randomChoice(SliceLast(availableCards, 3), r1)
      ELSE IF scoreDiff > 15 /\ Len(availableCards) > 3
        THEN randomChoice(SliceLast(availableCards, 3), r1)
      ELSE randomChoice(availableCards, r1)

\* cpuSelectCard with the endgame rule picking at random.
cpuSelectCard_EndgameRandom(r1, r2) ==
  LET availableCards == cpuCards
      remainingTurns == 10 - currentTurn
      scoreDiff == JsSub(cpuScore, playerScore)
  IN  IF scoreDiff < -15 /\ Len(availableCards) > 3
        THEN randomChoice(SliceLast(availableCards, 3), r1)
      ELSE IF scoreDiff > 15 /\ Len(availableCards) > 3
        THEN randomChoice(SliceFirst(availableCards, 3), r1)
      ELSE randomChoice(availableCards, r1)

\* cpuSelectCard always picking a middle card when there is one.
cpuSelectCard_MiddleWheneverHeld(r1, r2) ==
  LET availableCards == cpuCards
      remainingTurns == 10 - currentTurn
      scoreDiff == JsSub(cpuScore, playerScore)
      middleCards == SelectSeq(availableCards, LAMBDA c : c >= 4 /\ c <= 6)
  IN  IF scoreDiff < -15 /\ Len(availableCards) > 3
        THEN randomChoice(SliceLast(availableCards, 3), r1)
      ELSE IF scoreDiff > 15 /\ Len(availableCards) > 3
        THEN randomChoice(SliceFirst(availableCards, 3), r1)
      ELSE IF remainingTurns <= 3 /\ scoreDiff <= 0
        THEN MathMax(availableCards)
      ELSE IF Len(middleCards) > 0
        THEN randomChoice(middleCards, r2)
      ELSE randomChoice(availableCards, r1)

cpuSelectCard(r1, r2) ==
  LET availableCards == cpuCards
      remainingTurns == 10 - currentTurn
      scoreDiff == JsSub(cpuScore, playerScore)
      middleCards == SelectSeq(availableCards, LAMBDA c : c >= 4 /\ c <= 6)
  IN  IF scoreDiff < -15 /\ Len(availableCards) > 3
        THEN randomChoice(SliceLast(availableCards, 3), r1)
      ELSE IF scoreDiff > 15 /\ Len(availableCards) > 3
        THEN randomChoice(SliceFirst(availableCards, 3), r1)
      ELSE IF remainingTurns <= 3 /\ scoreDiff <= 0
        THEN MathMax(availableCards)
      ELSE IF Len(middleCards) > 0 /\ BelowSixTenths(r1)
        THEN randomChoice(middleCards, r2)
      ELSE IF Len(middleCards) > 0
        THEN randomChoice(availableCards, r2)
      ELSE randomChoice(availableCards, r1)

(***************************************************************************)
(* resolveRound(playerCard, cpuCard)                                       *)
(***************************************************************************)
\* resolveRound with >= for > in its first comparison: a tie goes to the player.
resolveRound_TieToPlayer(playerCard, cpuCard) ==
  LET totalPoints == JsAdd(playerCard, cpuCard)
  IN  IF ~JsGt(cpuCard, playerCard)
        THEN [winner |-> "player", playerPoints |-> totalPoints, cpuPoints |-> 0]
      ELSE [winner |-> "cpu", playerPoints |-> 0, cpuPoints |-> totalPoints]

resolveRound(playerCard, cpuCard) ==
  LET totalPoints == JsAdd(playerCard, cpuCard)
  IN  IF JsGt(playerCard, cpuCard)
        THEN [winner |-> "player", playerPoints |-> totalPoints, cpuPoints |-> 0]
      ELSE IF JsGt(cpuCard, playerCard)
        THEN [winner |-> "cpu", playerPoints |-> 0, cpuPoints |-> totalPoints]
      ELSE [winner |-> "tie", playerPoints |-> 0, cpuPoints |-> 0]

(***************************************************************************)
(* handleConfirm() resumed after sleep(1000): the CPU picks, both cards    *)
(* are marked used, the phase becomes 'reveal', and revealCards() runs up  *)
(* to its sleep(2000): the round is resolved and the scores are updated.   *)
(***************************************************************************)
\* The timer that completes a whole second next, and the other pending timers.
NextTimer == timers[Len(timers)]

OtherTimers == SubSeq(timers, 1, Len(timers) - 1)

\* The timer of sleep(2000), just started by the turn that was confirmed in match m.
RevealTimer(m) ==
  [kind |-> "reveal", match |-> m, winner |-> "none",
   isNewRecord |-> FALSE, elapsed |-> 0]

ThinkingDelayFires(r1, r2) ==
  /\ timers /= <<>>
  /\ NextTimer.kind = "thinking"
  /\ LET cpuCard == cpuSelectCard(r1, r2)
         playerCard == playerSelectedCard
         result == resolveRound(playerCard, cpuCard)
     IN  /\ cpuSelectedCard' = cpuCard
         /\ lastPlayerCard' = playerCard
         /\ lastCpuCard' = cpuCard
         /\ playerUsedCards' = playerUsedCards (+) SetToBag({playerCard})
         /\ cpuUsedCards' = cpuUsedCards (+) SetToBag({cpuCard})
         /\ playerCards' = FilterOut(playerCards, playerCard)
         /\ cpuCards' = FilterOut(cpuCards, cpuCard)
         /\ gamePhase' = "reveal"
         /\ lastRoundResult' = result
         /\ playerScore' = JsAdd(playerScore, result.playerPoints)
         /\ cpuScore' = JsAdd(cpuScore, result.cpuPoints)
         /\ tiedPoints' = IF result.winner = "tie"
                            THEN JsAdd(tiedPoints, JsAdd(playerCard, cpuCard))
                            ELSE tiedPoints
         /\ awardedPoints' = IF result.winner = "tie"
                               THEN awardedPoints
                               ELSE JsAdd(awardedPoints, JsAdd(playerCard, cpuCard))
  /\ timers' = <<RevealTimer(NextTimer.match)>> \o OtherTimers
  /\ lastOp' = Op("thinkingDelay", "done")
  /\ UNCHANGED <<currentTurn, isPlayerTurn, playerSelectedCard, highScore,
                 isLocked, match, resultModal,
                 storage>>
  /\ UNCHANGED otherGames

(***************************************************************************)
(* checkAndSaveHighScore(): its return value and the new state.highScore.  *)
(***************************************************************************)
\* IsNewRecord with < for >: lower is better, as for the Memory game's moves.
IsNewRecord_LowerIsBetter == highScore = Null \/ JsGt(highScore, playerScore)

\* IsNewRecord with >= for >: a score equal to the record counts as a new record.
IsNewRecord_OrEqual == highScore = Null \/ ~JsGt(highScore, playerScore)

\* The condition of line 482: no record yet, or the score is above the record.
IsNewRecord == highScore = Null \/ JsGt(playerScore, highScore)

\* checkAndSaveHighScore keeping the new score in state.highScore only when the
\* save call reports success.
checkAndSaveHighScore_OnlyIfSaved(ok) ==
  IF IsNewRecord
    THEN /\ storage' = saveNineGameScore(playerScore, ok)
         /\ highScore' = IF ok THEN playerScore ELSE highScore
    ELSE UNCHANGED <<storage, highScore>>

\* ok: whether the write that saveNineGameScore makes succeeds.
checkAndSaveHighScore(ok) ==
  IF IsNewRecord
    THEN /\ storage' = saveNineGameScore(playerScore, ok)
         /\ highScore' = playerScore
    ELSE UNCHANGED <<storage, highScore>>

(***************************************************************************)
(* handleConfirm() resumed after revealCards(): the game completes on turn *)
(* 9 (handleGameComplete), otherwise nextTurn() starts the next turn.      *)
(***************************************************************************)
\* The winner handleGameComplete determines.
MatchWinner ==
  IF JsGt(playerScore, cpuScore) THEN "player"
  ELSE IF JsGt(cpuScore, playerScore) THEN "cpu"
  ELSE "tie"

\* The timer of setTimeout(..., 1000), just started, with what its closure captured.
ModalTimer ==
  [kind |-> "modal", match |-> match, winner |-> MatchWinner,
   isNewRecord |-> IsNewRecord, elapsed |-> 0]

\* handleGameComplete counting the completed turn: currentTurn becomes 10.
handleGameComplete_AdvancesTurn(ok) ==
  /\ gamePhase' = "complete"
  /\ isLocked' = TRUE
  /\ checkAndSaveHighScore(ok)
  /\ timers' = <<ModalTimer>> \o OtherTimers
  /\ currentTurn' = currentTurn + 1
  /\ UNCHANGED <<isPlayerTurn, playerSelectedCard, cpuSelectedCard>>

handleGameComplete(ok) ==
  /\ gamePhase' = "complete"
  /\ isLocked' = TRUE
  /\ checkAndSaveHighScore(ok)
  /\ timers' = <<ModalTimer>> \o OtherTimers
  /\ UNCHANGED <<currentTurn, isPlayerTurn, playerSelectedCard, cpuSelectedCard>>

\* nextTurn computing isPlayerTurn before it increments currentTurn.
nextTurn_FlagBeforeIncrement ==
  /\ currentTurn' = currentTurn + 1
  /\ isPlayerTurn' = (currentTurn % 2 = 1)
  /\ playerSelectedCard' = Null
  /\ cpuSelectedCard' = Null
  /\ gamePhase' = "selection"
  /\ isLocked' = FALSE
  /\ timers' = OtherTimers
  /\ UNCHANGED <<highScore, storage>>

\* nextTurn leaving the input locked.
nextTurn_StaysLocked ==
  /\ currentTurn' = currentTurn + 1
  /\ isPlayerTurn' = ((currentTurn + 1) % 2 = 1)
  /\ playerSelectedCard' = Null
  /\ cpuSelectedCard' = Null
  /\ gamePhase' = "selection"
  /\ isLocked' = isLocked
  /\ timers' = OtherTimers
  /\ UNCHANGED <<highScore, storage>>

nextTurn ==
  /\ currentTurn' = currentTurn + 1
  /\ isPlayerTurn' = ((currentTurn + 1) % 2 = 1)
  /\ playerSelectedCard' = Null
  /\ cpuSelectedCard' = Null
  /\ gamePhase' = "selection"
  /\ isLocked' = FALSE
  /\ timers' = OtherTimers
  /\ UNCHANGED <<highScore, storage>>

\* RevealDelayFires applying the round's points again when the reveal delay ends.
RevealDelayFires_AppliesPoints ==
  /\ timers /= <<>>
  /\ NextTimer.kind = "reveal"
  /\ NextTimer.elapsed = 1
  /\ \E ok \in BOOLEAN :
       IF currentTurn >= 9 THEN handleGameComplete(ok) ELSE nextTurn
  /\ lastOp' = Op("revealDelay", IF currentTurn >= 9 THEN "complete" ELSE "nextTurn")
  /\ playerScore' = JsAdd(playerScore, lastRoundResult.playerPoints)
  /\ cpuScore' = JsAdd(cpuScore, lastRoundResult.cpuPoints)
  /\ UNCHANGED <<playerCards, cpuCards, playerUsedCards, cpuUsedCards,
                 lastPlayerCard, lastCpuCard, lastRoundResult,
                 match, tiedPoints, awardedPoints, resultModal>>
  /\ UNCHANGED otherGames

RevealDelayFires ==
  /\ timers /= <<>>
  /\ NextTimer.kind = "reveal"
  /\ NextTimer.elapsed = 1
  /\ \E ok \in BOOLEAN :
       IF currentTurn >= 9 THEN handleGameComplete(ok) ELSE nextTurn
  /\ lastOp' = Op("revealDelay", IF currentTurn >= 9 THEN "complete" ELSE "nextTurn")
  /\ UNCHANGED <<playerCards, cpuCards, playerUsedCards, cpuUsedCards,
                 lastPlayerCard, lastCpuCard, lastRoundResult,
                 playerScore, cpuScore, match, tiedPoints, awardedPoints,
                 resultModal>>
  /\ UNCHANGED otherGames

(***************************************************************************)
(* The first of the two seconds of a sleep(2000) has passed: the timer has *)
(* one second left, and no code runs.                                      *)
(***************************************************************************)
RevealDelayHalfElapsed ==
  /\ timers /= <<>>
  /\ NextTimer.kind = "reveal"
  /\ NextTimer.elapsed = 0
  /\ timers' = <<[NextTimer EXCEPT !.elapsed = 1]>> \o OtherTimers
  /\ lastOp' = Op("sleep", "running")
  /\ UNCHANGED <<gameState, match, tiedPoints, awardedPoints, resultModal,
                 storage>>
  /\ UNCHANGED otherGames

(***************************************************************************)
(* The setTimeout callback of handleGameComplete: showResultModal with the *)
(* captured winner and isNewRecord and the scores read when it fires.      *)
(***************************************************************************)
ModalTimerFires ==
  /\ timers /= <<>>
  /\ NextTimer.kind = "modal"
  /\ resultModal' =
       [winner |-> NextTimer.winner,
        playerScore |-> playerScore,
        cpuScore |-> cpuScore,
        highScore |-> highScore,
        isNewRecord |-> NextTimer.isNewRecord,
        match |-> NextTimer.match]
  /\ timers' = OtherTimers
  /\ lastOp' = Op("modalTimer", "done")
  /\ UNCHANGED <<gameState, match, tiedPoints, awardedPoints, storage>>
  /\ UNCHANGED otherGames

(***************************************************************************)
(* resetGame(): the New Game and Play Again buttons.  It calls startGame() *)
(* and cancels no timer.                                                   *)
(***************************************************************************)
resetGame ==
  /\ match < MaxResets
  /\ match' = match + 1
  /\ startGame
  /\ tiedPoints' = 0
  /\ awardedPoints' = 0
  /\ lastOp' = Op("resetGame", "done")
  /\ UNCHANGED <<highScore, timers, resultModal,
                 storage>>
  /\ UNCHANGED otherGames

(***************************************************************************)
(* The player's inputs.                                                    *)
(***************************************************************************)
\* The indices the player clicks: any card while clicks are not accepted, and
\* otherwise a card no longer held or one of the MaxClickRank highest cards held.
ClickInputs ==
  {index \in 0..(NumCards - 1) :
     \/ isLocked
     \/ gamePhase /= "selection"
     \/ (index + 1) \notin SeqToSet(playerCards)
     \/ (index + 1) \in SeqToSet(SliceLast(playerCards, MaxClickRank))}

Next ==
  \/ \E index \in ClickInputs : handleCardClick(index)
  \/ handleConfirm
  \/ \E r1, r2 \in RandomDraws : ThinkingDelayFires(r1, r2)
  \/ RevealDelayHalfElapsed
  \/ RevealDelayFires
  \/ ModalTimerFires
  \/ resetGame

Spec == Init /\ [][Next]_vars

(***************************************************************************)
(* Properties of the card pools, the CPU pick and the turn counter.        *)
(***************************************************************************)
\* The list holds cards only, each at most once.
IsCardList(array) ==
  /\ \A i \in 1..Len(array) : array[i] \in CardValues
  /\ \A i, j \in 1..Len(array) : i /= j => array[i] /= array[j]

\* The used list holds cards only, each at most once.
IsCardBag(used) ==
  /\ BagToSet(used) \subseteq CardValues
  /\ \A c \in BagToSet(used) : CopiesIn(c, used) = 1

\* available and used are disjoint and together hold every card 1..9.
IsPartition(available, used) ==
  /\ IsCardList(available)
  /\ IsCardBag(used)
  /\ SeqToSet(available) \cap BagToSet(used) = {}
  /\ SeqToSet(available) \cup BagToSet(used) = CardValues

\* C1: in every reachable state, for the player and for the CPU, the available
\* list and the used list are disjoint, hold no duplicate and no non-card value,
\* and together hold exactly the cards 1..9.
C1_PoolsPartitionTheCards ==
  /\ IsPartition(playerCards, playerUsedCards)
  /\ IsPartition(cpuCards, cpuUsedCards)

\* C2: every value cpuSelectCard returns (the step after the thinking delay
\* stores it in cpuSelectedCard) is one of the cards in cpuCards when it is
\* called; never a used card, a value outside 1..9, or no value.
C2_CpuPicksAnAvailableCard ==
  [][lastOp'.handler = "thinkingDelay"
       => /\ cpuSelectedCard' \in CardValues
          /\ cpuSelectedCard' \in SeqToSet(cpuCards)]_vars

\* The step starts a new match (startGame).
IsResetStep == lastOp'.handler = "resetGame"

\* The step resumes a handleConfirm that was accepted in the current match.
ResumesThisMatch ==
  \/ /\ lastOp'.handler = "thinkingDelay"
     /\ NextTimer.match = match
  \/ /\ lastOp'.handler = "revealDelay"
     /\ NextTimer.match = match

\* The step resumes a handleConfirm that was accepted before the last startGame.
ResumesAbandonedTurn ==
  \/ /\ lastOp'.handler = "thinkingDelay"
     /\ NextTimer.match /= match
  \/ /\ lastOp'.handler = "revealDelay"
     /\ NextTimer.match /= match

\* C3: within a match the turn number starts at 1, stays in 1..9 and changes
\* only by +1, once per resolved turn of that match (in the step that ends the
\* turn's reveal delay); after the 9th turn is resolved the phase is complete
\* and the turn number does not change again in that match.
C3_TurnAdvancesOncePerResolvedTurn ==
  [][/\ currentTurn' \in 1..9
     /\ IsResetStep => currentTurn' = 1
     /\ (currentTurn' /= currentTurn /\ ~IsResetStep)
          => /\ currentTurn' = currentTurn + 1
             /\ lastOp'.handler = "revealDelay"
             /\ ResumesThisMatch
     /\ (lastOp'.handler = "revealDelay" /\ ResumesThisMatch)
          => IF currentTurn = 9
               THEN gamePhase' = "complete" /\ currentTurn' = 9
               ELSE currentTurn' = currentTurn + 1
     /\ (gamePhase = "complete" /\ ~IsResetStep) => currentTurn' = currentTurn]_vars

\* The handleConfirm invocations that are waiting in one of their two delays.
TurnsInFlight ==
  Len(SelectSeq(timers, LAMBDA t : t.kind \in {"thinking", "reveal"}))

\* C4: while an accepted confirmation is in its thinking or reveal delay every
\* further handleConfirm is ignored, so that at most one turn is in flight: one
\* CPU card is picked and one round is resolved per turn.
C4_ConfirmIgnoredWhileTurnInFlight ==
  [][/\ (TurnsInFlight > 0 /\ lastOp'.handler = "handleConfirm")
          => /\ lastOp'.outcome /= "accepted"
             /\ UNCHANGED <<gameState, timers>>
     /\ TurnsInFlight' <= 1]_vars

\* The state startGame() leaves: turn 1, full pools, nothing used, no scores,
\* no pending cards, selection phase, unlocked.
IsFreshMatch ==
  /\ currentTurn = 1
  /\ playerCards = AllCards
  /\ cpuCards = AllCards
  /\ playerUsedCards = EmptyBag
  /\ cpuUsedCards = EmptyBag
  /\ playerScore = 0
  /\ cpuScore = 0
  /\ playerSelectedCard = Null
  /\ cpuSelectedCard = Null
  /\ gamePhase = "selection"
  /\ ~isLocked

\* C5: resetGame at any moment yields a fresh match, and no continuation of the
\* abandoned turn later changes the new match's pools, scores, turn number or
\* phase.
C5_ResetAbandonsTheTurnInFlight ==
  [][/\ IsResetStep => IsFreshMatch'
     /\ ResumesAbandonedTurn
          => UNCHANGED <<playerCards, cpuCards, playerUsedCards, cpuUsedCards,
                         playerScore, cpuScore, currentTurn, gamePhase>>]_vars

(***************************************************************************)
(* Rejected inputs.                                                        *)
(***************************************************************************)
\* C6: a click on a card that is in the player's used list is rejected: the
\* pending selection, both pools, both scores, the turn number, the phase, the
\* lock and the pending timers are as before, and the machine does not advance.
C6_ClickOnUsedCardChangesNothing ==
  [][\A index \in 0..(NumCards - 1) :
       (BagIn(index + 1, playerUsedCards) /\ handleCardClick(index))
         => /\ UNCHANGED <<gameState, timers>>
            /\ lastOp'.outcome \in {"locked", "wrongPhase", "usedCard"}]_vars

\* A click on a used card was rejected for that reason during the selection phase.
C6_Witness ==
  /\ lastOp = Op("handleCardClick", "usedCard")
  /\ gamePhase = "selection"
  /\ ~isLocked
  /\ playerUsedCards /= EmptyBag

\* The machine is not accepting input: it is locked or not in the selection phase.
NotSelecting == isLocked \/ gamePhase /= "selection"

\* C7: a click or a confirm while the machine is not in SELECTING (locked for
\* the thinking delay, in the reveal phase, or complete), and a confirm with no
\* selection pending, leave the whole state as it was: no lock is taken, no
\* timer is started, no CPU card is chosen, and no pool, score, pending card,
\* turn number or phase changes.
C7_RejectedInputChangesNothing ==
  [][/\ \A index \in 0..(NumCards - 1) :
          (NotSelecting /\ handleCardClick(index))
            => UNCHANGED <<gameState, timers>>
     /\ ((NotSelecting \/ playerSelectedCard = Null) /\ handleConfirm)
          => UNCHANGED <<gameState, timers>>]_vars

\* A confirm was attempted and rejected during the thinking delay of a turn.
C7_Witness ==
  /\ lastOp = Op("handleConfirm", "locked")
  /\ gamePhase = "selection"
  /\ playerSelectedCard /= Null
  /\ timers /= <<>>

(***************************************************************************)
(* Scoring.                                                                *)
(***************************************************************************)
\* C9: when a match is complete after 9 resolved rounds, playerScore + cpuScore
\* is the sum of playerCard + cpuCard over the rounds that were not ties, which
\* is 90 minus the cards played in the tied rounds (twice the tied value).
C9_ScoresConserveThePoints ==
  (gamePhase = "complete" /\ BagCardinality(cpuUsedCards) = NumCards)
    => /\ JsAdd(playerScore, cpuScore) = awardedPoints
       /\ JsAdd(playerScore, cpuScore) = 90 - tiedPoints

\* C10: the scores change only in the step that resolves a revealed round (the
\* step that enters the reveal phase), by that round's points and once per round;
\* a card click or a confirmation never changes a score.  A new match (startGame)
\* starts the scores at 0.
C10_ScoresChangeOnlyWhenARoundIsResolved ==
  [][/\ (<<playerScore, cpuScore>>' /= <<playerScore, cpuScore>> /\ ~IsResetStep)
          => /\ lastOp'.handler = "thinkingDelay"
             /\ gamePhase' = "reveal"
     /\ lastOp'.handler = "thinkingDelay"
          => /\ lastRoundResult' = resolveRound(lastPlayerCard', lastCpuCard')
             /\ playerScore' = JsAdd(playerScore, lastRoundResult'.playerPoints)
             /\ cpuScore' = JsAdd(cpuScore, lastRoundResult'.cpuPoints)
     /\ lastOp'.handler \in {"handleCardClick", "handleConfirm", "revealDelay"}
          => UNCHANGED <<playerScore, cpuScore>>]_vars

\* A round was just resolved in favour of the player, whose score holds its points.
C10_Witness ==
  /\ lastOp.handler = "thinkingDelay"
  /\ gamePhase = "reveal"
  /\ lastRoundResult.winner = "player"
  /\ playerScore = lastRoundResult.playerPoints
  /\ playerScore > 0

(***************************************************************************)
(* resolveRound on every pair of cards: the two cards are drawn into       *)
(* lastPlayerCard and lastCpuCard, where revealCards() reads them, and the *)
(* result is stored in lastRoundResult, where revealCards() stores it.     *)
(***************************************************************************)
InitResolve ==
  /\ playerCards = AllCards
  /\ cpuCards = AllCards
  /\ playerUsedCards = EmptyBag
  /\ cpuUsedCards = EmptyBag
  /\ currentTurn = 1
  /\ isPlayerTurn = TRUE
  /\ playerSelectedCard = Null
  /\ cpuSelectedCard = Null
  /\ lastPlayerCard \in CardValues
  /\ lastCpuCard \in CardValues
  /\ lastRoundResult = NoResult
  /\ playerScore = 0
  /\ cpuScore = 0
  /\ highScore = Null
  /\ gamePhase = "reveal"
  /\ isLocked = TRUE
  /\ timers = <<>>
  /\ match = 0
  /\ lastOp = Op("init", "done")
  /\ tiedPoints = 0
  /\ awardedPoints = 0
  /\ resultModal = NoModal
  /\ storage = EmptyStorage
  /\ OtherGamesConstructed

ResolveRoundCalled ==
  /\ lastOp.handler = "init"
  /\ lastRoundResult' = resolveRound(lastPlayerCard, lastCpuCard)
  /\ lastOp' = Op("resolveRound", "done")
  /\ UNCHANGED <<playerCards, cpuCards, playerUsedCards, cpuUsedCards,
                 currentTurn, isPlayerTurn, playerSelectedCard, cpuSelectedCard,
                 lastPlayerCard, lastCpuCard, playerScore, cpuScore, highScore,
                 gamePhase, isLocked, timers, match,
                 tiedPoints, awardedPoints, resultModal,
                 storage>>
  /\ UNCHANGED otherGames

NextResolve == ResolveRoundCalled

SpecResolve == InitResolve /\ [][NextResolve]_vars

\* C8: for every pair of cards p, c in 1..9, resolveRound(p, c) gives p + c to the
\* player and 0 to the CPU iff p > c, p + c to the CPU and 0 to the player iff
\* c > p, and 0 to both with winner 'tie' iff p = c; the call leaves the scores,
\* the pools, the used lists, the turn number, the phase and the lock as they were.
C8_ResolveRoundAwardsTheSumToTheHigherCard ==
  lastOp.handler = "resolveRound"
    => LET p == lastPlayerCard
           c == lastCpuCard
           r == lastRoundResult
       IN  /\ (p > c) <=> (r.winner = "player" /\ r.playerPoints = p + c /\ r.cpuPoints = 0)
           /\ (c > p) <=> (r.winner = "cpu" /\ r.cpuPoints = p + c /\ r.playerPoints = 0)
           /\ (p = c) <=> (r.winner = "tie" /\ r.playerPoints = 0 /\ r.cpuPoints = 0)
           /\ playerScore = 0 /\ cpuScore = 0
           /\ playerCards = AllCards /\ cpuCards = AllCards
           /\ playerUsedCards = EmptyBag /\ cpuUsedCards = EmptyBag
           /\ currentTurn = 1 /\ gamePhase = "reveal" /\ isLocked

\* resolveRound was applied to two equal cards.
C8_Witness ==
  /\ lastOp.handler = "resolveRound"
  /\ lastPlayerCard = lastCpuCard
  /\ lastRoundResult.winner = "tie"

(***************************************************************************)
(* The end of a match.                                                     *)
(***************************************************************************)

\* C11 as stated: in every reachable state the phase is complete iff the turn
\* number is greater than 9.
C11_CompleteIffTurnAboveNine ==
  (gamePhase = "complete") <=> (currentTurn > 9)

\* C11: the turn number stays within 1..9 (it is never greater than 9), and the
\* phase is complete only while the turn number is 9: the ninth turn's
\* continuation completes the match without advancing the turn number.
C11_CompleteOnlyAtTurnNine ==
  /\ currentTurn \in 1..9
  /\ gamePhase = "complete" => currentTurn = 9

\* A match played without a reset is complete, at turn number 9.
C11_Witness ==
  /\ gamePhase = "complete"
  /\ currentTurn = 9
  /\ match = 0
  /\ BagCardinality(playerUsedCards) = NumCards

(***************************************************************************)
(* cpuSelectCard() on its inputs: the pool, the two scores and the turn    *)
(* number are drawn, and the call of line 269 stores the card it returns   *)
(* in cpuSelectedCard.                                                     *)
(***************************************************************************)
\* Math.random() is drawn from { k / CpuRandomResolution } for cpuSelectCard alone:
\* fine enough for randomChoice to reach every index of an array of up to 9 cards.
CpuRandomResolution == 9

CpuRandomDraws ==
  {<<k, CpuRandomResolution>> : k \in 0..(CpuRandomResolution - 1)}

\* The scores drawn: their differences include 0, -15, 15, -16, 16, -20 and 20.
ScoreSamples == {0, 15, 16, 20}

\* The cards of S in the order the pool keeps them (startGame's order, filtered).
HeldCards(S) == SelectSeq(AllCards, LAMBDA c : c \in S)

InitCpu ==
  /\ playerCards = AllCards
  /\ cpuCards \in {HeldCards(S) : S \in (SUBSET CardValues) \ {{}}}
  /\ playerUsedCards = EmptyBag
  /\ cpuUsedCards = EmptyBag
  /\ currentTurn \in 1..9
  /\ isPlayerTurn = TRUE
  /\ playerSelectedCard = Null
  /\ cpuSelectedCard = Null
  /\ lastPlayerCard = Null
  /\ lastCpuCard = Null
  /\ lastRoundResult = NoResult
  /\ playerScore \in ScoreSamples
  /\ cpuScore \in ScoreSamples
  /\ highScore = Null
  /\ gamePhase = "selection"
  /\ isLocked = TRUE
  /\ timers = <<>>
  /\ match = 0
  /\ lastOp = Op("init", "done")
  /\ tiedPoints = 0
  /\ awardedPoints = 0
  /\ resultModal = NoModal
  /\ storage = EmptyStorage
  /\ OtherGamesConstructed

cpuSelectCardCalled(r1, r2) ==
  /\ lastOp.handler = "init"
  /\ cpuSelectedCard' = cpuSelectCard(r1, r2)
  /\ lastOp' = Op("cpuSelectCard", "done")
  /\ UNCHANGED <<playerCards, cpuCards, playerUsedCards, cpuUsedCards,
                 currentTurn, isPlayerTurn, playerSelectedCard,
                 lastPlayerCard, lastCpuCard, lastRoundResult,
                 playerScore, cpuScore, highScore, gamePhase, isLocked,
                 timers, match, tiedPoints, awardedPoints, resultModal,
                 storage>>
  /\ UNCHANGED otherGames

NextCpu == \E r1, r2 \in CpuRandomDraws : cpuSelectCardCalled(r1, r2)

SpecCpu == InitCpu /\ [][NextCpu]_vars

\* The cards cpuSelectCard can return in this state, over every value of Math.random().
CpuPicks == {cpuSelectCard(r1, r2) : r1, r2 \in CpuRandomDraws}

\* The n highest and the n lowest cards of a pool.
HighestCards(array, n) ==
  {c \in SeqToSet(array) : Cardinality({d \in SeqToSet(array) : d > c}) < n}

LowestCards(array, n) ==
  {c \in SeqToSet(array) : Cardinality({d \in SeqToSet(array) : d < c}) < n}

\* C12: whenever cpuScore - playerScore < -15 and the CPU holds more than 3 cards,
\* cpuSelectCard returns one of the three highest cards of cpuCards, and each of
\* the three is a possible result, whatever the turn number (also on turns 7..9,
\* where the endgame rule would give the single maximum).
C12_DesperationPicksAmongThreeHighest ==
  (JsSub(cpuScore, playerScore) < -15 /\ Len(cpuCards) > 3)
    => /\ CpuPicks = HighestCards(cpuCards, 3)
       /\ Cardinality(CpuPicks) = 3
       /\ lastOp.handler = "cpuSelectCard"
            => cpuSelectedCard \in HighestCards(cpuCards, 3)

\* Turn 8, scoreDiff -20, pool {2,3,7,8,9}: the CPU picked 7, not the maximum.
C12_Witness ==
  /\ lastOp.handler = "cpuSelectCard"
  /\ currentTurn = 8
  /\ JsSub(cpuScore, playerScore) = -20
  /\ cpuCards = <<2, 3, 7, 8, 9>>
  /\ cpuSelectedCard = 7

\* What cpuSelectCard returns when none of its first three rules fires: a middle
\* card (4..6) with probability 0.6 if there is one, otherwise any card.
BalancedPick(r1, r2) ==
  LET middleCards == SelectSeq(cpuCards, LAMBDA c : c >= 4 /\ c <= 6)
  IN  IF Len(middleCards) > 0 /\ BelowSixTenths(r1)
        THEN randomChoice(middleCards, r2)
      ELSE IF Len(middleCards) > 0
        THEN randomChoice(cpuCards, r2)
      ELSE randomChoice(cpuCards, r1)

NoScoreRuleFires ==
  ~(JsSub(cpuScore, playerScore) < -15 /\ Len(cpuCards) > 3)
    /\ ~(JsSub(cpuScore, playerScore) > 15 /\ Len(cpuCards) > 3)

IsCompletionStep == lastOp' = Op("revealDelay", "complete")

MaxRecord(record, score) ==
  IF record = Null \/ JsGt(score, record) THEN score ELSE record

IsFailedWriteStep ==
  /\ IsCompletionStep
  /\ storage'.writes /= storage.writes
  /\ storage'.failed

\* C17: when the write of the high score fails, the match result is as it would
\* be otherwise: the match completes with its scores, isNewRecord is the
\* comparison of the final score with the record held before the write (true,
\* since a write was attempted), and state.highScore becomes the new score.  Every
\* later completion compares with state.highScore, not with what the store holds.
C17_FailedWriteLeavesResultAndRecord ==
  [][/\ IsFailedWriteStep
          => /\ highScore = Null \/ JsGt(playerScore, highScore)
             /\ Head(timers').kind = "modal"
             /\ Head(timers').isNewRecord
             /\ Head(timers').winner = MatchWinner
             /\ highScore' = playerScore
             /\ storage'.highScore = storage.highScore
             /\ gamePhase' = "complete"
             /\ UNCHANGED <<playerScore, cpuScore>>
     /\ (IsCompletionStep /\ storage.highScore /= highScore)
          => Head(timers').isNewRecord
               = (highScore = Null \/ JsGt(playerScore, highScore))]_vars

\* A second match completed after the first one's write failed: its score does
\* not beat the record in memory, and is not reported as a record although the
\* store is still empty.
C17_Witness ==
  /\ lastOp = Op("revealDelay", "complete")
  /\ match = 1
  /\ storage.failed
  /\ storage.writes = 1
  /\ storage.highScore = Null
  /\ highScore /= Null
  /\ ~JsGt(playerScore, highScore)
  /\ Head(timers).kind = "modal"
  /\ ~Head(timers).isNewRecord

(***************************************************************************)
(* The result handed to showResultModal.                                   *)
(***************************************************************************)

\* The winner that the scores of a result stand for.
ResultWinner(result) ==
  IF JsGt(result.playerScore, result.cpuScore) THEN "player"
  ELSE IF JsGt(result.cpuScore, result.playerScore) THEN "cpu"
  ELSE "tie"

\* C18: the result handed to showResultModal is consistent with the match that
\* completed: its winner is the one its reported scores stand for, and it is
\* delivered while that match is still the current one and complete, so that the
\* scores it reports are that match's final scores.
C18_ResultConsistentWithItsMatch ==
  [][lastOp' = Op("modalTimer", "done")
       => /\ resultModal'.winner = ResultWinner(resultModal')
          /\ resultModal'.match = match
          /\ gamePhase = "complete"]_vars

(***************************************************************************)
(* The card selection: the first turns of a session in which the player    *)
(* clicks any of the nine cards at any time.                               *)
(***************************************************************************)
\* The turn up to which the session is followed.
MaxClickTurn == 2

NextClick ==
  \/ \E index \in 0..(NumCards - 1) : handleCardClick(index)
  \/ currentTurn < MaxClickTurn /\ handleConfirm
  \/ \E r1, r2 \in RandomDraws : ThinkingDelayFires(r1, r2)
  \/ RevealDelayHalfElapsed
  \/ RevealDelayFires

SpecClick == Init /\ [][NextClick]_vars

\* handleCardClick(index) passed its three early returns (lines 222-228).
ClickAccepted(index) ==
  /\ handleCardClick(index)
  /\ CardClickRejection(index) = "none"

\* C19 as stated: every accepted click on an available card makes that card the
\* pending choice, so that an accepted click never leaves no pending card.
C19_AcceptedClickSelectsTheCard ==
  [][\A index \in 0..(NumCards - 1) :
       ClickAccepted(index) => playerSelectedCard' = index + 1]_vars

\* C19: an accepted click on an available card other than the pending choice
\* makes that card the pending choice, whatever was pending; an accepted click on
\* the card that is the pending choice clears the pending choice; a rejected
\* click leaves the pending choice alone.
C19_AcceptedClickTogglesTheCard ==
  [][\A index \in 0..(NumCards - 1) :
       handleCardClick(index)
         => playerSelectedCard' =
              IF CardClickRejection(index) /= "none" THEN playerSelectedCard
              ELSE IF playerSelectedCard = index + 1 THEN Null
              ELSE index + 1]_vars

\* On the second turn an accepted click on the pending card has just cleared it.
C19_Witness ==
  /\ lastOp = Op("handleCardClick", "deselected")
  /\ currentTurn = 2
  /\ gamePhase = "selection"
  /\ ~isLocked
  /\ playerSelectedCard = Null

(***************************************************************************)
(* The first-mover flag.                                                   *)
(***************************************************************************)
\* The round was played as on any turn: the player's card is the one confirmed,
\* the CPU's card is a pick of cpuSelectCard, the result is resolveRound's.
RoundPlayedAlike ==
  /\ lastPlayerCard' = playerSelectedCard
  /\ \E r1, r2 \in RandomDraws : lastCpuCard' = cpuSelectCard(r1, r2)
  /\ lastRoundResult' = resolveRound(lastPlayerCard', lastCpuCard')
  /\ playerScore' = JsAdd(playerScore, lastRoundResult'.playerPoints)
  /\ cpuScore' = JsAdd(cpuScore, lastRoundResult'.cpuPoints)

WINNING_LINES ==
  << <<0, 1, 2>>, <<3, 4, 5>>, <<6, 7, 8>>,
     <<0, 3, 6>>, <<1, 4, 7>>, <<2, 5, 8>>,
     <<0, 4, 8>>, <<2, 4, 6>> >>

\* The values of Math.random() drawn for the four chances of getCPUMove: 0 is
\* below and 0.9 above each of 0.7, 0.8, 0.6 and 0.4.
ChanceDraws == {<<0, 10>>, <<9, 10>>}

\* Math.random() < tenths / 10
BelowTenths(r, tenths) == 10 * r[1] < tenths * r[2]

\* The first element of the sequence that satisfies Test, or none.
FirstIndex(array, Test(_)) ==
  IF \E i \in 1..Len(array) : Test(array[i])
    THEN CHOOSE i \in 1..Len(array) :
           Test(array[i]) /\ \A j \in 1..(i - 1) : ~Test(array[j])
    ELSE 0

\* checkWin() on a board: the mark of the first complete line, or "null".
checkWin(board) ==
  LET Complete(line) ==
        /\ board[line[1]] /= ""
        /\ board[line[1]] = board[line[2]]
        /\ board[line[1]] = board[line[3]]
      i == FirstIndex(WINNING_LINES, Complete)
  IN  IF i = 0 THEN "null" ELSE board[WINNING_LINES[i][1]]

\* checkDraw() on a board.
checkDraw(board) == \A i \in 0..8 : board[i] /= ""

\* findWinningMove(symbol): the empty cell of the first line that holds the
\* symbol twice and one empty cell, or null.
findWinningMove(board, symbol) ==
  LET Count(line, mark) == Cardinality({k \in 1..3 : board[line[k]] = mark})
      CanWin(line) == Count(line, symbol) = 2 /\ Count(line, "") = 1
      i == FirstIndex(WINNING_LINES, CanWin)
      line == WINNING_LINES[i]
  IN  IF i = 0 THEN Null
      ELSE IF board[line[1]] = "" THEN line[1]
      ELSE IF board[line[2]] = "" THEN line[2]
      ELSE line[3]

\* The indices among the given ones whose cell is empty, in order.
EmptyCells(board, indices) == SelectSeq(indices, LAMBDA i : board[i] = "")

\* getRandomMove(): undefined when no cell is empty.
getRandomMove(board, r) ==
  randomChoice(EmptyCells(board, <<0, 1, 2, 3, 4, 5, 6, 7, 8>>), r)

\* The indices getCPUMove() can return, over the values of Math.random() it
\* draws: one for each chance as it is reached, one for the corner and one for
\* the random cell.
getCPUMove(state) ==
  LET board == state.board
      winMove == findWinningMove(board, state.cpuSymbol)
      blockMove == findWinningMove(board, state.playerSymbol)
      availableCorners == EmptyCells(board, <<0, 2, 6, 8>>)
      Random == {getRandomMove(board, r) : r \in CpuRandomDraws}
      Corner ==
        UNION {IF BelowTenths(r, 4) /\ Len(availableCorners) > 0
                 THEN {randomChoice(availableCorners, r5) : r5 \in CpuRandomDraws}
                 ELSE Random : r \in ChanceDraws}
      Center ==
        UNION {IF BelowTenths(r, 6) /\ board[4] = "" THEN {4} ELSE Corner :
                 r \in ChanceDraws}
      Block ==
        UNION {IF BelowTenths(r, 8) /\ blockMove /= Null THEN {blockMove} ELSE Center :
                 r \in ChanceDraws}
  IN  UNION {IF BelowTenths(r, 7) /\ winMove /= Null THEN {winMove} ELSE Block :
               r \in ChanceDraws}

\* handleGameOver(winner, line) on a state.
handleGameOver(state, winner) ==
  LET stats == state.sessionStats
  IN  [state EXCEPT
         !.gameOver = TRUE,
         !.winner = winner,
         !.sessionStats =
            IF winner = "draw" THEN [stats EXCEPT !.draws = @ + 1]
            ELSE IF winner = state.playerSymbol THEN [stats EXCEPT !.wins = @ + 1]
            ELSE [stats EXCEPT !.losses = @ + 1]]

TttOp(handler, outcome) == [handler |-> handler, outcome |-> outcome]

\* What the Nine controller, which is not on this page, keeps.
NineGameConstructed ==
  /\ playerCards = AllCards
  /\ cpuCards = AllCards
  /\ playerUsedCards = EmptyBag
  /\ cpuUsedCards = EmptyBag
  /\ currentTurn = 1
  /\ isPlayerTurn = TRUE
  /\ playerSelectedCard = Null
  /\ cpuSelectedCard = Null
  /\ lastPlayerCard = Null
  /\ lastCpuCard = Null
  /\ lastRoundResult = NoResult
  /\ playerScore = 0
  /\ cpuScore = 0
  /\ highScore = Null
  /\ gamePhase = "selection"
  /\ isLocked = FALSE
  /\ timers = <<>>
  /\ match = 0
  /\ lastOp = Op("init", "done")
  /\ tiedPoints = 0
  /\ awardedPoints = 0
  /\ resultModal = NoModal
  /\ storage = EmptyStorage

\* startGame() on a state: the board is reset; when the CPU holds X a timer of
\* 500 ms is started.  cpuThinking is not assigned and no timer is cancelled.
TttStartGame(state) ==
  [state EXCEPT
     !.board = EmptyBoard,
     !.currentPlayer = "X",
     !.gameOver = FALSE,
     !.winner = "null",
     !.pendingMoves = IF state.playerSymbol = "X" THEN @ ELSE @ + 1,
     !.games = @ + 1,
     !.lastMark = "none"]

\* handleSymbolSelect(symbol): a click on a symbol button while they are shown.
handleSymbolSelect(symbol) ==
  /\ ticTacToe.selectionShown
  /\ ticTacToe' =
       [TttStartGame([ticTacToe EXCEPT
                        !.playerSymbol = symbol,
                        !.cpuSymbol = IF symbol = "X" THEN "O" ELSE "X",
                        !.symbolSelected = TRUE,
                        !.selectionShown = FALSE])
          EXCEPT !.games = 0,
                 !.lastOp = TttOp("handleSymbolSelect", symbol)]
  /\ UNCHANGED exceptTicTacToe

\* The early return handleCellClick takes, or "none".
CellClickRejection(index) ==
  IF ticTacToe.gameOver THEN "gameOver"
  ELSE IF ticTacToe.board[index] /= "" THEN "occupied"
  ELSE IF ticTacToe.currentPlayer /= ticTacToe.playerSymbol THEN "notPlayersTurn"
  ELSE IF ticTacToe.cpuThinking THEN "cpuThinking"
  ELSE "none"

\* A state after placeMarkat(index, symbol) by the player or the CPU.
placeMarkat(state, index, symbol, by) ==
  [state EXCEPT
     !.board = [state.board EXCEPT ![index] = symbol],
     !.lastMark = by]

\* The checks for a win and a draw after a mark, and the switch of the turn.
AfterMark(state, next, thinking) ==
  IF checkWin(state.board) /= "null"
    THEN handleGameOver(state, checkWin(state.board))
  ELSE IF checkDraw(state.board)
    THEN handleGameOver(state, "draw")
  ELSE [state EXCEPT
          !.currentPlayer = next,
          !.cpuThinking = IF thinking THEN TRUE ELSE @,
          !.pendingMoves = IF thinking THEN @ + 1 ELSE @]

handleCellClick(index) ==
  /\ ticTacToe' =
       IF CellClickRejection(index) /= "none"
         THEN [ticTacToe EXCEPT
                 !.lastOp = TttOp("handleCellClick", CellClickRejection(index))]
         ELSE [AfterMark(placeMarkat(ticTacToe, index, ticTacToe.playerSymbol, "player"),
                         ticTacToe.cpuSymbol, TRUE)
                 EXCEPT !.lastOp = TttOp("handleCellClick", "placed")]
  /\ UNCHANGED exceptTicTacToe

\* A timer fires: makeCPUMove().  With no empty cell getCPUMove() returns
\* undefined and placeMarkat throws a TypeError at this.state.cells[undefined].
makeCPUMove(moveIndex) ==
  /\ ticTacToe.pendingMoves > 0
  /\ LET fired == [ticTacToe EXCEPT !.pendingMoves = @ - 1]
     IN  ticTacToe' =
           IF moveIndex = Undefined
             THEN [fired EXCEPT !.lastOp = TttOp("makeCPUMove", "TypeError")]
             ELSE [AfterMark([placeMarkat(fired, moveIndex, ticTacToe.cpuSymbol, "cpu")
                                EXCEPT !.cpuThinking = FALSE],
                             ticTacToe.playerSymbol, FALSE)
                     EXCEPT !.lastOp = TttOp("makeCPUMove", "placed")]
  /\ UNCHANGED exceptTicTacToe

\* resetGame(): the New Game button and the modal's Play Again.
TttResetGame ==
  /\ ticTacToe.games < MaxResets
  /\ ticTacToe' =
       IF ticTacToe.symbolSelected
         THEN [TttStartGame(ticTacToe) EXCEPT !.lastOp = TttOp("resetGame", "started")]
         ELSE [ticTacToe EXCEPT
                 !.selectionShown = TRUE,
                 !.lastOp = TttOp("resetGame", "selection")]
  /\ UNCHANGED exceptTicTacToe

InitTicTacToe ==
  /\ NineGameConstructed
  /\ OtherGamesConstructed

\* The board is displayed, and its cells can be clicked, once a symbol is chosen
\* (tic-tac-toe-design.md: 'Game board (hidden until symbol chosen)').
BoardShown == ticTacToe.symbolSelected

NextTicTacToe ==
  \/ \E symbol \in {"X", "O"} : handleSymbolSelect(symbol)
  \/ \E index \in 0..8 : BoardShown /\ handleCellClick(index)
  \/ \E moveIndex \in getCPUMove(ticTacToe) : makeCPUMove(moveIndex)
  \/ TttResetGame

SpecTicTacToe == InitTicTacToe /\ [][NextTicTacToe]_vars

\* A step of the game in progress that changes the board: a mark is placed.
MarkPlaced ==
  /\ ticTacToe'.games = ticTacToe.games
  /\ ticTacToe'.lastOp.handler \in {"handleCellClick", "makeCPUMove"}
  /\ ticTacToe'.board /= ticTacToe.board

\* C21: whenever a CPU move is pending, every index getCPUMove can return is
\* an empty cell in 0..8; and every mark placed, by the player or by the CPU,
\* changes exactly one cell, which was empty.
C21_MarksGoOntoEmptyCells ==
  /\ [](ticTacToe.pendingMoves > 0
          => \A moveIndex \in getCPUMove(ticTacToe) :
               moveIndex \in 0..8 /\ ticTacToe.board[moveIndex] = "")
  /\ [][MarkPlaced
          => \E i \in 0..8 :
               /\ ticTacToe.board[i] = ""
               /\ ticTacToe'.board = [ticTacToe.board EXCEPT ![i] = ticTacToe'.board[i]]]_vars

\* The number of cells of the board that hold the mark.
CountMarks(board, mark) == Cardinality({i \in 0..8 : board[i] = mark})

\* C22: in every reachable state the number of X marks minus the number of O
\* marks is 0 or 1, and no mark is placed by the side that placed the previous
\* mark of the game.
C22_TurnsStrictlyAlternate ==
  /\ [](CountMarks(ticTacToe.board, "X") - CountMarks(ticTacToe.board, "O") \in {0, 1})
  /\ [][MarkPlaced => ticTacToe'.lastMark /= ticTacToe.lastMark]_vars

(***************************************************************************)
(* StorageService: save, load, loadNumber and remove over localStorage.    *)
(***************************************************************************)
Digits == <<"0", "1", "2", "3", "4", "5", "6", "7", "8", "9">>

\* The digit a character stands for, or -1.
DigitOf(char) ==
  IF \E d \in 1..10 : Digits[d] = char
    THEN (CHOOSE d \in 1..10 : Digits[d] = char) - 1
    ELSE -1

IsDigits(chars) ==
  /\ Len(chars) > 0
  /\ \A i \in 1..Len(chars) : DigitOf(chars[i]) >= 0

RECURSIVE DigitsToNumber(_)
DigitsToNumber(chars) ==
  IF Len(chars) = 0 THEN 0
  ELSE 10 * DigitsToNumber(SubSeq(chars, 1, Len(chars) - 1))
         + DigitOf(chars[Len(chars)])

RECURSIVE NumberToDigits(_)
NumberToDigits(n) ==
  IF n < 10 THEN <<Digits[n + 1]>>
  ELSE NumberToDigits(n \div 10) \o <<Digits[(n % 10) + 1]>>

\* String(value)
String(value) ==
  IF value.type = "string" THEN value.chars
  ELSE IF value.type = "undefined" THEN <<"u", "n", "d", "e", "f", "i", "n", "e", "d">>
  ELSE IF value.type = "boolean" THEN
    IF value.value = 1 THEN <<"t", "r", "u", "e">> ELSE <<"f", "a", "l", "s", "e">>
  ELSE IF value.type = "null" THEN <<"n", "u", "l", "l">>
  ELSE IF value.value = NaN THEN <<"N", "a", "N">>
  ELSE IF value.value < 0 THEN <<"-">> \o NumberToDigits(0 - value.value)
  ELSE NumberToDigits(value.value)

\* typeof value === 'object' ? JSON.stringify(value) : String(value), for the
\* values stored: null is the only one whose typeof is 'object'.
Serialized(value) ==
  IF value.type = "null" THEN <<"n", "u", "l", "l">> ELSE String(value)

JsBoolean(b) == [type |-> "boolean", value |-> IF b THEN 1 ELSE 0, chars |-> <<>>]

\* The characters after an optional leading minus sign.
Unsigned(chars) ==
  IF Len(chars) > 0 /\ chars[1] = "-" THEN SubSeq(chars, 2, Len(chars)) ELSE chars

Negative(chars) == Len(chars) > 0 /\ chars[1] = "-"

\* try { JSON.parse(item) } catch { item }: the literals null, true and false
\* and the integers without a leading zero parse; anything else is returned
\* as the raw string.
JsonParseOrRaw(chars) ==
  IF chars = <<"n", "u", "l", "l">> THEN JsNull
  ELSE IF chars = <<"t", "r", "u", "e">> THEN JsBoolean(TRUE)
  ELSE IF chars = <<"f", "a", "l", "s", "e">> THEN JsBoolean(FALSE)
  ELSE IF IsDigits(Unsigned(chars))
          /\ (Len(Unsigned(chars)) = 1 \/ Unsigned(chars)[1] /= "0")
    THEN JsNumber(IF Negative(chars)
                    THEN 0 - DigitsToNumber(Unsigned(chars))
                    ELSE DigitsToNumber(chars))
  ELSE JsString(chars)

\* Number(value)
Number(value) ==
  IF value.type = "number" THEN value.value
  ELSE IF value.type = "null" THEN 0
  ELSE IF value.type = "boolean" THEN value.value
  ELSE IF value.type = "undefined" THEN NaN
  ELSE IF value.chars = <<>> THEN 0
  ELSE IF IsDigits(Unsigned(value.chars))
    THEN IF Negative(value.chars)
           THEN 0 - DigitsToNumber(Unsigned(value.chars))
           ELSE DigitsToNumber(value.chars)
  ELSE NaN

\* load(key, defaultValue) on the items; ok: getItem did not throw.
load(items, key, defaultValue, ok) ==
  IF ~ok THEN defaultValue
  ELSE IF ~items[key].present THEN defaultValue
  ELSE JsonParseOrRaw(items[key].chars)

\* loadNumber(key, defaultValue = 0)
loadNumber(items, key, defaultValue, ok) ==
  LET default == IF defaultValue.type = "undefined" THEN JsNumber(0) ELSE defaultValue
      value == load(items, key, default, ok)
      number == Number(value)
  IN  IF number = NaN THEN default ELSE JsNumber(number)

\* save(key, value) on the items; ok: setItem did not throw.
save(items, key, value, ok) ==
  IF ok
    THEN [items EXCEPT ![key] = [present |-> TRUE, chars |-> Serialized(value)]]
    ELSE items

\* The values saved and the default values passed in the calls drawn.
SavedValues ==
  {JsNumber(0), JsNumber(8), JsNumber(42), JsNumber(NaN), JsNull,
   JsString(<<>>), JsString(<<"a", "b", "c">>), JsString(<<"0", "0", "7">>)}

DefaultValues == {JsNull, JsUndefined, JsNumber(0), JsNumber(99)}

StorageSaveCalled(key, value, ok) ==
  /\ localStorage' =
       [items |-> save(localStorage.items, key, value, ok),
        lastCall |-> [op |-> "save", key |-> key,
                      absent |-> ~localStorage.items[key].present,
                      argument |-> value, result |-> JsBoolean(ok)]]
  /\ UNCHANGED exceptStorage

StorageRemoveCalled(key) ==
  /\ localStorage' =
       [items |-> [localStorage.items EXCEPT ![key] = AbsentItem],
        lastCall |-> [op |-> "remove", key |-> key,
                      absent |-> ~localStorage.items[key].present,
                      argument |-> JsUndefined, result |-> JsBoolean(TRUE)]]
  /\ UNCHANGED exceptStorage

StorageLoadNumberCalled(key, defaultValue, ok) ==
  /\ localStorage' =
       [localStorage EXCEPT
          !.lastCall = [op |-> "loadNumber", key |-> key,
                        absent |-> ~localStorage.items[key].present,
                        argument |-> defaultValue,
                        result |-> loadNumber(localStorage.items, key, defaultValue, ok)]]
  /\ UNCHANGED exceptStorage

InitStorage ==
  /\ NineGameConstructed
  /\ OtherGamesConstructed

NextStorage ==
  \/ \E key \in StorageKeys, value \in SavedValues, ok \in BOOLEAN :
       StorageSaveCalled(key, value, ok)
  \/ \E key \in StorageKeys : StorageRemoveCalled(key)
  \/ \E key \in StorageKeys, defaultValue \in DefaultValues, ok \in BOOLEAN :
       StorageLoadNumberCalled(key, defaultValue, ok)

SpecStorage == InitStorage /\ [][NextStorage]_vars

\* C27: loadNumber(key, defaultValue) returns defaultValue whenever the key is
\* absent from storage, for null and for every number passed as defaultValue.
C27_LoadNumberReturnsTheDefault ==
  (/\ localStorage.lastCall.op = "loadNumber"
   /\ localStorage.lastCall.absent
   /\ localStorage.lastCall.argument.type \in {"null", "number"})
    => localStorage.lastCall.result = localStorage.lastCall.argument

(***************************************************************************)
(* Memory game: MemoryGameController.                                      *)
(***************************************************************************)
\* The moves counted in one game, and the face-down cards a click is drawn from
\* (the first ones in index order).
MaxMoves == 9
MaxFaceDownChoices == 3

NumMemoryCards == 16

\* [1,1,2,2,...,8,8] (startGame, lines 71-74), indexed from 0.
UnshuffledCards == [i \in 0..(NumMemoryCards - 1) |-> (i \div 2) + 1]

\* shuffleArray from index i down to 1; random[i] is the value of Math.random()
\* in the iteration for i.
RECURSIVE ShuffleFrom(_, _, _)
ShuffleFrom(array, i, random) ==
  IF i <= 0 THEN array
  ELSE LET j == (random[i][1] * (i + 1)) \div random[i][2]
       IN  ShuffleFrom([array EXCEPT ![i] = array[j], ![j] = array[i]], i - 1, random)

shuffleArray(array, random) == ShuffleFrom(array, NumMemoryCards - 1, random)

\* The deals drawn: Math.random() returns the same value throughout a shuffle.
Deals ==
  {shuffleArray(UnshuffledCards, [i \in 1..(NumMemoryCards - 1) |-> r]) : r \in RandomDraws}

MemOp(handler, outcome) == [handler |-> handler, outcome |-> outcome]

\* A JavaScript number or null as the controllers' fields hold it.
FromJs(value) == IF value.type = "null" THEN Null ELSE value.value

\* GameDataService.loadMemoryGameHighScore()
loadMemoryGameHighScore(items, ok) ==
  FromJs(loadNumber(items, "memory-game_highscore", JsNull, ok))

\* GameDataService.saveMemoryGameScore(score): the items afterwards and the
\* value returned.
saveMemoryGameScore(items, score, ok) ==
  LET currentBest == loadNumber(items, "memory-game_highscore", JsNull, ok)
  IN  IF currentBest.type = "null" \/ score < currentBest.value
        THEN [items |-> save(items, "memory-game_highscore", JsNumber(score), ok),
              isNewRecord |-> TRUE]
        ELSE [items |-> items, isNewRecord |-> FALSE]

\* startGame() with the given deal: no pending timer is cancelled.
MemStartGame(state, deal) ==
  [state EXCEPT
     !.cards = deal,
     !.flippedIndices = <<>>,
     !.matchedIndices = {},
     !.flipped = {},
     !.moves = 0,
     !.isLocked = FALSE,
     !.gameStarted = FALSE,
     !.gameComplete = FALSE,
     !.games = @ + 1,
     !.mismatches = 0]

\* init(): loads the high score and starts the first game.
memoryInit(deal, ok) ==
  /\ memoryGame.games = 0
  /\ memoryGame' =
       [MemStartGame([memoryGame EXCEPT
                        !.highScore = loadMemoryGameHighScore(localStorage.items, ok)],
                     deal)
          EXCEPT !.lastOp = MemOp("init", "done")]
  /\ UNCHANGED localStorage
  /\ UNCHANGED exceptMemoryGame

\* resetGame(): the Reset and New Game buttons and the modal's Play Again.
MemResetGame(deal) ==
  /\ memoryGame.games > 0
  /\ memoryGame.games <= MaxResets
  /\ memoryGame' = [MemStartGame(memoryGame, deal) EXCEPT !.lastOp = MemOp("resetGame", "done")]
  /\ UNCHANGED localStorage
  /\ UNCHANGED exceptMemoryGame

MemFlipBackTimer(index1, index2, game) ==
  [kind |-> "flipBack", index1 |-> index1, index2 |-> index2, game |-> game]

MemCompleteTimer(game) ==
  [kind |-> "complete", index1 |-> 0, index2 |-> 0, game |-> game]

\* Why handleCardClick(index) returns at once, or "none".
MemCardClickRejection(index) ==
  IF memoryGame.isLocked THEN "locked"
  ELSE IF index \in SeqToSet(memoryGame.flippedIndices) THEN "flipped"
  ELSE IF index \in memoryGame.matchedIndices THEN "matched"
  ELSE "none"

\* handleMatch()
handleMatch(state) ==
  LET index1 == state.flippedIndices[1]
      index2 == state.flippedIndices[2]
      matched == state.matchedIndices \cup {index1, index2}
  IN  [state EXCEPT
         !.matchedIndices = matched,
         !.flippedIndices = <<>>,
         !.timers = IF Cardinality(matched) = NumMemoryCards
                      THEN Append(@, MemCompleteTimer(state.games))
                      ELSE @,
         !.lastOp = MemOp("handleCardClick", "match")]

\* handleMismatch()
handleMismatch(state) ==
  [state EXCEPT
     !.isLocked = TRUE,
     !.mismatches = @ + 1,
     !.timers = Append(@, MemFlipBackTimer(state.flippedIndices[1],
                                           state.flippedIndices[2], state.games)),
     !.lastOp = MemOp("handleCardClick", "mismatch")]

\* The cards a click is drawn from: the first face-down cards, one of the cards
\* in flippedIndices and one of the matched cards.
FaceDownCards ==
  {i \in 0..(NumMemoryCards - 1) :
     i \notin SeqToSet(memoryGame.flippedIndices) /\ i \notin memoryGame.matchedIndices}

ClickChoices ==
  {i \in FaceDownCards :
     Cardinality({j \in FaceDownCards : j < i}) < MaxFaceDownChoices}
  \cup {i \in SeqToSet(memoryGame.flippedIndices) :
          \A j \in SeqToSet(memoryGame.flippedIndices) : i <= j}
  \cup {i \in memoryGame.matchedIndices : \A j \in memoryGame.matchedIndices : i <= j}

\* handleCardClick counting a move on the first card of a pair as well.
MemHandleCardClick_CountsEveryFlip(index) ==
  /\ memoryGame.games > 0
  /\ IF MemCardClickRejection(index) /= "none"
       THEN memoryGame' = [memoryGame EXCEPT !.lastOp = MemOp("handleCardClick", "rejected")]
       ELSE LET pushed == [memoryGame EXCEPT
                             !.gameStarted = TRUE,
                             !.flipped = @ \cup {index},
                             !.flippedIndices = Append(@, index),
                             !.moves = @ + 1,
                             !.lastOp = MemOp("handleCardClick", "flipped")]
            IN  /\ memoryGame.moves < MaxMoves
                /\ memoryGame' =
                     IF Len(pushed.flippedIndices) = 2
                       THEN IF pushed.cards[pushed.flippedIndices[1]]
                                 = pushed.cards[pushed.flippedIndices[2]]
                              THEN handleMatch(pushed)
                              ELSE handleMismatch(pushed)
                       ELSE pushed
  /\ UNCHANGED localStorage
  /\ UNCHANGED exceptMemoryGame

\* handleCardClick(index)
MemHandleCardClick(index) ==
  /\ memoryGame.games > 0
  /\ IF MemCardClickRejection(index) /= "none"
       THEN memoryGame' = [memoryGame EXCEPT !.lastOp = MemOp("handleCardClick", "rejected")]
       ELSE LET pushed == [memoryGame EXCEPT
                             !.gameStarted = TRUE,
                             !.flipped = @ \cup {index},
                             !.flippedIndices = Append(@, index),
                             !.lastOp = MemOp("handleCardClick", "flipped")]
            IN  IF Len(pushed.flippedIndices) = 2
                  THEN /\ memoryGame.moves < MaxMoves
                       /\ LET counted == [pushed EXCEPT !.moves = @ + 1]
                          IN  memoryGame' =
                                IF counted.cards[counted.flippedIndices[1]]
                                     = counted.cards[counted.flippedIndices[2]]
                                  THEN handleMatch(counted)
                                  ELSE handleMismatch(counted)
                  ELSE memoryGame' = pushed
  /\ UNCHANGED localStorage
  /\ UNCHANGED exceptMemoryGame

\* Whether the timer at position k can be the next to fire: the timers of one
\* delay fire in the order they were started, and a 500 ms timer fires before
\* every 1000 ms timer started after it.
MemTimerDue(k) ==
  /\ k \in 1..Len(memoryGame.timers)
  /\ \A e \in 1..(k - 1) :
       /\ memoryGame.timers[e].kind /= memoryGame.timers[k].kind
       /\ memoryGame.timers[e].kind /= "complete"

RemoveAt(seq, k) == SubSeq(seq, 1, k - 1) \o SubSeq(seq, k + 1, Len(seq))

\* The callback of handleMismatch's setTimeout (lines 224-234).
FlipBackFires(k) ==
  /\ MemTimerDue(k)
  /\ memoryGame.timers[k].kind = "flipBack"
  /\ memoryGame' =
       [memoryGame EXCEPT
          !.flipped = @ \ {memoryGame.timers[k].index1, memoryGame.timers[k].index2},
          !.flippedIndices = <<>>,
          !.isLocked = FALSE,
          !.timers = RemoveAt(@, k),
          !.lastOp = MemOp("flipBack", "done")]
  /\ UNCHANGED localStorage
  /\ UNCHANGED exceptMemoryGame

\* handleGameComplete(), run by handleMatch's setTimeout; ok: localStorage
\* does not throw.
MemHandleGameComplete(k, ok) ==
  /\ MemTimerDue(k)
  /\ memoryGame.timers[k].kind = "complete"
  /\ LET saved == saveMemoryGameScore(localStorage.items, memoryGame.moves, ok)
         best == IF saved.isNewRecord THEN memoryGame.moves ELSE memoryGame.highScore
     IN  /\ localStorage' = [localStorage EXCEPT !.items = saved.items]
         /\ memoryGame' =
              [memoryGame EXCEPT
                 !.gameComplete = TRUE,
                 !.highScore = best,
                 !.submitted = Append(@, [score |-> memoryGame.moves,
                                          highScore |-> best,
                                          isNewRecord |-> saved.isNewRecord,
                                          game |-> memoryGame.timers[k].game]),
                 !.timers = RemoveAt(@, k),
                 !.lastOp = MemOp("handleGameComplete", "done")]
  /\ UNCHANGED exceptMemoryGame

InitMemory ==
  /\ NineGameConstructed
  /\ OtherGamesConstructed

NextMemory ==
  \/ \E deal \in Deals, ok \in BOOLEAN : memoryInit(deal, ok)
  \/ \E index \in ClickChoices : MemHandleCardClick(index)
  \/ \E k \in 1..Len(memoryGame.timers) : FlipBackFires(k)
  \/ \E k \in 1..Len(memoryGame.timers), ok \in BOOLEAN : MemHandleGameComplete(k, ok)
  \/ \E deal \in Deals : MemResetGame(deal)

SpecMemory == InitMemory /\ [][NextMemory]_vars

\* A flip-back started by the current game's mismatch is pending.
MismatchedPairFaceUp ==
  \E k \in 1..Len(memoryGame.timers) :
    /\ memoryGame.timers[k].kind = "flipBack"
    /\ memoryGame.timers[k].game = memoryGame.games

\* C23: at most two unmatched cards are face up (|flippedIndices| <= 2), and
\* from the moment two mismatched cards are face up until their flip-back
\* fires every card click is ignored.
C23_TwoFaceUpAndLockedUntilFlipBack ==
  /\ [](Len(memoryGame.flippedIndices) <= 2)
  /\ [][(MismatchedPairFaceUp /\ memoryGame'.lastOp.handler = "handleCardClick")
          => memoryGame'.lastOp.outcome = "rejected"]_vars

(***************************************************************************)
(* Whack-a-Mole: WhackAMoleController.                                     *)
(***************************************************************************)
\* The score counted in one game, the auto-hide timers pending when a mole is
\* spawned, and the ticks counted after timeRemaining has passed 0.
MaxScore == 2
MaxPendingHides == 2
MaxOvertime == 2

WhackOp(handler, outcome, index) ==
  [handler |-> handler, outcome |-> outcome, index |-> index]

HideTimer(index) == [index |-> index, referenced |-> TRUE, own |-> TRUE]

\* GameDataService.saveWhackAMoleScore(score) on the items.
saveWhackAMoleScore(items, score, ok) ==
  LET currentBest == loadNumber(items, "whack-a-mole_highscore", JsNumber(0), ok)
  IN  IF score > currentBest.value
        THEN save(items, "whack-a-mole_highscore", JsNumber(score), ok)
        ELSE items

\* hideMole(index): the hole is emptied and the reference moleTimeouts[index]
\* deleted; no timer is cancelled.
hideMole(state, index) ==
  [state EXCEPT
     !.holes[index] = FALSE,
     !.moleTimeouts[index] = FALSE,
     !.hideTimers =
        [k \in 1..Len(@) |->
           IF @[k].index = index
             THEN [@[k] EXCEPT !.referenced = FALSE, !.own = FALSE]
             ELSE @[k]]]

\* availableHoles of spawnMole(), in index order.
availableHoles(state) ==
  SelectSeq([k \in 1..NumHoles |-> k - 1], LAMBDA i : ~state.holes[i])

\* spawnMole() with the value r of Math.random().
spawnMole(state, r) ==
  IF ~state.gameActive \/ Len(availableHoles(state)) = 0 THEN state
  ELSE LET randomIndex == randomChoice(availableHoles(state), r)
       IN  [state EXCEPT
              !.holes[randomIndex] = TRUE,
              !.moleTimeouts[randomIndex] = TRUE,
              !.hideTimers =
                 Append([k \in 1..Len(@) |->
                           IF @[k].index = randomIndex
                             THEN [@[k] EXCEPT !.referenced = FALSE]
                             ELSE @[k]],
                        HideTimer(randomIndex))]

\* startMoleSpawning() with the game active: a mole and the next spawn timer.
startMoleSpawning(state, r) ==
  [spawnMole(state, r) EXCEPT
     !.spawnTimers = @ + 1,
     !.spawnTimeout = "pending"]

\* stopTimer()
stopTimer(state) ==
  IF state.timerInterval
    THEN [state EXCEPT !.intervals = @ - 1, !.timerInterval = FALSE]
    ELSE state

\* stopMoleSpawning(): the timers that are referenced are cleared, every mole
\* is hidden.
stopMoleSpawning(state) ==
  [state EXCEPT
     !.spawnTimers = IF state.spawnTimeout = "pending" THEN @ - 1 ELSE @,
     !.spawnTimeout = "null",
     !.hideTimers =
        [k \in 1..Len(SelectSeq(@, LAMBDA t : ~t.referenced)) |->
           [SelectSeq(@, LAMBDA t : ~t.referenced)[k] EXCEPT !.own = FALSE]],
     !.moleTimeouts = NoHoles,
     !.holes = NoHoles]

\* checkAndSaveHighScore(): whether the score is a new record.
WhackIsNewRecord(state) == state.score > state.highScore

\* endGame()
WhackEndGame(state) ==
  LET stopped == stopMoleSpawning(stopTimer([state EXCEPT !.gameActive = FALSE]))
  IN  [stopped EXCEPT
         !.highScore = IF WhackIsNewRecord(state) THEN state.score ELSE @,
         !.startEnabled = TRUE,
         !.modalTimers = Append(@, [isNewRecord |-> WhackIsNewRecord(state)]),
         !.endGames = @ + 1]

\* startGame() with the value r of Math.random() for the first mole.
WhackStartGame(state, r) ==
  startMoleSpawning(
    [state EXCEPT
       !.score = 0,
       !.timeRemaining = 30,
       !.gameActive = TRUE,
       !.gameStarted = TRUE,
       !.holes = NoHoles,
       !.hideTimers = [k \in 1..Len(@) |-> [@[k] EXCEPT !.own = FALSE]],
       !.intervals = @ + 1,
       !.timerInterval = TRUE,
       !.games = @ + 1,
       !.endGames = 0],
    r)

\* More games and more moles may be started.
WhackMayStart ==
  /\ whackAMole.games <= MaxResets
  /\ Len(whackAMole.hideTimers) < MaxPendingHides

\* handleStartGame(): the Start button.
handleStartGame(r) ==
  /\ whackAMole.startEnabled
  /\ ~whackAMole.modal.shown
  /\ WhackMayStart
  /\ whackAMole' =
       [WhackStartGame(whackAMole, r) EXCEPT
          !.startEnabled = FALSE,
          !.lastOp = WhackOp("handleStartGame", "started", 0)]
  /\ UNCHANGED localStorage
  /\ UNCHANGED exceptWhackAMole

\* resetGame(): the Reset and New Game buttons, and the modal's Play Again
\* (which hides the modal first).
WhackResetGame(r) ==
  /\ WhackMayStart
  /\ whackAMole' =
       IF whackAMole.gameStarted
         THEN [WhackStartGame(whackAMole, r) EXCEPT
                 !.modal = WhackNoModal,
                 !.lastOp = WhackOp("resetGame", "started", 0)]
         ELSE [whackAMole EXCEPT
                 !.modal = WhackNoModal,
                 !.lastOp = WhackOp("resetGame", "ignored", 0)]
  /\ UNCHANGED localStorage
  /\ UNCHANGED exceptWhackAMole

\* The setInterval callback of startTimer() (lines 170-178); ok: localStorage
\* does not throw.
CountdownTick(ok) ==
  /\ whackAMole.intervals > 0
  /\ whackAMole.timeRemaining > 0 - MaxOvertime
  /\ LET ticked == [whackAMole EXCEPT !.timeRemaining = @ - 1]
     IN  IF ticked.timeRemaining <= 0
           THEN /\ whackAMole' =
                     [WhackEndGame(ticked) EXCEPT !.lastOp = WhackOp("tick", "endGame", 0)]
                /\ localStorage' =
                     IF WhackIsNewRecord(ticked)
                       THEN [localStorage EXCEPT
                               !.items = saveWhackAMoleScore(@, ticked.score, ok)]
                       ELSE localStorage
           ELSE /\ whackAMole' = [ticked EXCEPT !.lastOp = WhackOp("tick", "counted", 0)]
                /\ UNCHANGED localStorage
  /\ UNCHANGED exceptWhackAMole

\* The callback of startMoleSpawning()'s setTimeout; referenced: the timer
\* that fires is the one spawnTimeout refers to.
SpawnTimerFires(referenced, r) ==
  /\ whackAMole.spawnTimers > 0
  /\ IF referenced
       THEN whackAMole.spawnTimeout = "pending"
       ELSE whackAMole.spawnTimers > (IF whackAMole.spawnTimeout = "pending" THEN 1 ELSE 0)
  /\ IF whackAMole.gameActive
       THEN /\ Len(whackAMole.hideTimers) < MaxPendingHides
            /\ whackAMole' =
                 [startMoleSpawning([whackAMole EXCEPT !.spawnTimers = @ - 1], r) EXCEPT
                    !.lastOp = WhackOp("spawn", "spawned", 0)]
       ELSE whackAMole' =
              [whackAMole EXCEPT
                 !.spawnTimers = @ - 1,
                 !.spawnTimeout = IF referenced THEN "fired" ELSE @,
                 !.lastOp = WhackOp("spawn", "inactive", 0)]
  /\ UNCHANGED localStorage
  /\ UNCHANGED exceptWhackAMole

\* The callback of spawnMole()'s setTimeout: hideMole(randomIndex).
HideTimerFires ==
  /\ Len(whackAMole.hideTimers) > 0
  /\ LET timer == Head(whackAMole.hideTimers)
         fired == [whackAMole EXCEPT !.hideTimers = Tail(@)]
     IN  whackAMole' =
           [hideMole(fired, timer.index) EXCEPT
              !.lastOp = WhackOp("autoHide",
                                 IF ~whackAMole.holes[timer.index] THEN "empty"
                                 ELSE IF timer.own THEN "own" ELSE "other",
                                 timer.index)]
  /\ UNCHANGED localStorage
  /\ UNCHANGED exceptWhackAMole

\* handleMoleHit(index) if it counted the hit and left the mole in its hole.
handleMoleHit_LeavesTheMole(state, index) ==
  [state EXCEPT !.score = @ + 1]

\* handleMoleHit(index): hideMole has deleted moleTimeouts[index] before it is
\* tested, so no timer is cleared.
handleMoleHit(state, index) ==
  LET hidden == hideMole([state EXCEPT !.score = @ + 1], index)
  IN  IF hidden.moleTimeouts[index]
        THEN [hidden EXCEPT
                !.hideTimers = SelectSeq(@, LAMBDA t : ~(t.index = index /\ t.referenced)),
                !.moleTimeouts[index] = FALSE]
        ELSE hidden

\* handleHoleClick(index)
handleHoleClick(index) ==
  /\ whackAMole' =
       IF ~whackAMole.gameActive
         THEN [whackAMole EXCEPT !.lastOp = WhackOp("handleHoleClick", "inactive", index)]
       ELSE IF whackAMole.holes[index]
         THEN [handleMoleHit(whackAMole, index) EXCEPT
                 !.lastOp = WhackOp("handleHoleClick", "hit", index)]
       ELSE [whackAMole EXCEPT !.lastOp = WhackOp("handleHoleClick", "miss", index)]
  /\ whackAMole.gameActive /\ whackAMole.holes[index] => whackAMole.score < MaxScore
  /\ UNCHANGED localStorage
  /\ UNCHANGED exceptWhackAMole

\* The callback of endGame()'s setTimeout: showResultModal with the score and
\* high score the state holds now.
WhackModalTimerFires ==
  /\ Len(whackAMole.modalTimers) > 0
  /\ whackAMole' =
       [whackAMole EXCEPT
          !.modalTimers = Tail(@),
          !.modal = [shown |-> TRUE,
                     score |-> whackAMole.score,
                     highScore |-> whackAMole.highScore,
                     isNewRecord |-> Head(whackAMole.modalTimers).isNewRecord],
          !.lastOp = WhackOp("showResultModal", "shown", 0)]
  /\ UNCHANGED localStorage
  /\ UNCHANGED exceptWhackAMole

InitWhack ==
  /\ NineGameConstructed
  /\ OtherGamesConstructed

NextWhack ==
  \/ \E r \in RandomDraws : handleStartGame(r)
  \/ \E r \in RandomDraws : WhackResetGame(r)
  \/ \E ok \in BOOLEAN : CountdownTick(ok)
  \/ \E referenced \in BOOLEAN, r \in RandomDraws : SpawnTimerFires(referenced, r)
  \/ HideTimerFires
  \/ \E index \in 0..(NumHoles - 1) : ~whackAMole.modal.shown /\ handleHoleClick(index)
  \/ WhackModalTimerFires

SpecWhack == InitWhack /\ [][NextWhack]_vars

\* The step is a click on a hole.
HoleClicked == whackAMole'.lastOp.handler = "handleHoleClick"

\* C24: a click on a hole whose mole is visible while the game is active adds
\* exactly 1 to score and hides the mole, so that a further click on the hole
\* before a new mole spawns there does not score; a click on an empty hole, or
\* any click while the game is not active, leaves score unchanged.
C24_OnlyAHitScoresAndItHidesTheMole ==
  [][HoleClicked =>
       LET index == whackAMole'.lastOp.index
       IN  IF whackAMole.gameActive /\ whackAMole.holes[index]
             THEN /\ whackAMole'.score = whackAMole.score + 1
                  /\ ~whackAMole'.holes[index]
             ELSE whackAMole'.score = whackAMole.score]_vars

\* Two moles have been hit and the last click was a hit.
C24_Witness ==
  /\ whackAMole.lastOp.handler = "handleHoleClick"
  /\ whackAMole.lastOp.outcome = "hit"
  /\ whackAMole.score = 2

\* The step is the firing of an auto-hide timer.
AutoHideFired == whackAMole'.lastOp.handler = "autoHide"

\* The step starts a game.
GameStartedNow == whackAMole'.games > whackAMole.games

\* The step runs endGame().
GameEndedNow == whackAMole'.endGames > whackAMole.endGames

\* C25: a hit cancels the mole's auto-hide timeout, an auto-hide callback only
\* hides the mole that scheduled it, and a mole that is not hit stays visible
\* until its own timeout fires.
C25_AutoHideHidesItsOwnMole ==
  /\ [][(HoleClicked /\ whackAMole'.lastOp.outcome = "hit") =>
          \A k \in 1..Len(whackAMole'.hideTimers) :
            whackAMole'.hideTimers[k].index /= whackAMole'.lastOp.index]_vars
  /\ [][(AutoHideFired /\ whackAMole.holes[Head(whackAMole.hideTimers).index]) =>
          Head(whackAMole.hideTimers).own]_vars
  /\ [][\A i \in 0..(NumHoles - 1) :
          (whackAMole.holes[i] /\ ~whackAMole'.holes[i]) =>
            \/ HoleClicked /\ whackAMole'.lastOp.index = i
            \/ AutoHideFired /\ Head(whackAMole.hideTimers).index = i
                 /\ Head(whackAMole.hideTimers).own
            \/ GameStartedNow
            \/ GameEndedNow]_vars

\* The step is a tick of a countdown.
CountdownTicked == whackAMole'.lastOp.handler = "tick"

\* C26: timeRemaining starts at 30 in every game, decreases by exactly 1 per
\* countdown tick, never goes below 0, and endGame is triggered exactly once
\* in a game, when timeRemaining reaches 0.
C26_CountdownEndsTheGameOnce ==
  /\ [](whackAMole.timeRemaining >= 0)
  /\ [](whackAMole.endGames <= 1)
  /\ [](whackAMole.timeRemaining = 0 /\ whackAMole.gameStarted => whackAMole.endGames = 1)
  /\ [][GameStartedNow => whackAMole'.timeRemaining = 30]_vars
  /\ [][CountdownTicked => whackAMole'.timeRemaining = whackAMole.timeRemaining - 1]_vars
  /\ [][GameEndedNow => CountdownTicked /\ whackAMole'.timeRemaining = 0]_vars

\* A confirmation has been accepted and its thinking delay has not ended.
ConfirmedNotRevealed ==
  \E k \in 1..Len(timers) : timers[k].kind = "thinking"

\* The step is the end of a thinking delay: handleConfirm resumes.
ThinkingDelayEnded ==
  Len(SelectSeq(timers', LAMBDA t : t.kind = "thinking"))
    < Len(SelectSeq(timers, LAMBDA t : t.kind = "thinking"))

\* C28: between the accepted confirmation and the reveal the committed player
\* card is not replaced, cleared or changed by any event, so the card that is
\* resolved and marked used is the card that was pending at the confirmation.
C28_CommittedCardIsTheCardResolved ==
  /\ [][ConfirmedNotRevealed => playerSelectedCard' = playerSelectedCard]_vars
  /\ [][ThinkingDelayEnded =>
          /\ lastPlayerCard' = playerSelectedCard
          /\ lastPlayerCard' \in 1..NumCards]_vars

(***************************************************************************)
(* Fair firing of the timers: a delay that was started ends, whatever the  *)
(* player does meanwhile.  The player keeps selecting and confirming: a    *)
(* card is selected when none is, and a confirmation that can be accepted  *)
(* again and again is made; New Game is pressed during the thinking delay  *)
(* of a first turn.                                                        *)
(***************************************************************************)
\* The turns in which New Game is pressed.
MaxResetTurn == 1

TimerFires ==
  \/ \E r1, r2 \in RandomDraws : ThinkingDelayFires(r1, r2)
  \/ RevealDelayHalfElapsed
  \/ RevealDelayFires
  \/ ModalTimerFires

PlayerSelects ==
  \E index \in ClickInputs : handleCardClick(index) /\ playerSelectedCard' /= Null

PlayerConfirms == handleConfirm /\ ConfirmRejection = "none"

ResetWhileThinking ==
  /\ currentTurn <= MaxResetTurn
  /\ ConfirmedNotRevealed
  /\ resetGame

NextFair ==
  \/ \E index \in ClickInputs : handleCardClick(index)
  \/ handleConfirm
  \/ \E r1, r2 \in RandomDraws : ThinkingDelayFires(r1, r2)
  \/ RevealDelayHalfElapsed
  \/ RevealDelayFires
  \/ ModalTimerFires
  \/ ResetWhileThinking

SpecFair ==
  /\ Init
  /\ [][NextFair]_vars
  /\ WF_vars(TimerFires)
  /\ WF_vars(PlayerSelects)
  /\ SF_vars(PlayerConfirms)

\* The turn of an accepted confirmation is in flight.
TurnInFlight ==
  \E k \in 1..Len(timers) : timers[k].kind \in {"thinking", "reveal"}

\* The player can select a card, or the match is complete.
ReadyOrComplete ==
  \/ gamePhase = "selection" /\ ~isLocked
  \/ gamePhase = "complete"

\* The step is an accepted confirmation: a thinking delay starts.
ConfirmAcceptedNow ==
  Len(SelectSeq(timers', LAMBDA t : t.kind = "thinking"))
    > Len(SelectSeq(timers, LAMBDA t : t.kind = "thinking"))

\* C29: under fair firing of the delays every accepted confirmation is followed
\* by the selection phase with input unlocked or by the complete phase, and the
\* machine does not stay locked in selection or reveal forever; a player who
\* keeps selecting and confirming reaches the complete phase, after exactly 9
\* accepted confirmations: the confirmation accepted in turn n is the n-th of
\* the match, and the match is complete at turn 9 with 9 cards used.
C29_EveryConfirmationEndsItsTurn ==
  /\ TurnInFlight ~> ReadyOrComplete
  /\ (isLocked /\ gamePhase \in {"selection", "reveal"}) ~> ReadyOrComplete
  /\ (gamePhase /= "complete") ~> (gamePhase = "complete")
  /\ [][(match = 0 /\ ConfirmAcceptedNow) =>
          /\ currentTurn \in 1..NumCards
          /\ BagCardinality(playerUsedCards) = currentTurn - 1]_vars
  /\ [](match = 0 /\ gamePhase = "complete" =>
          /\ currentTurn = NumCards
          /\ BagCardinality(playerUsedCards) = NumCards)

\* After New Game during a thinking delay, a turn has ended and the player can
\* select a card for the next one.
C29_Witness ==
  /\ match = 1
  /\ lastOp = Op("revealDelay", "nextTurn")
  /\ gamePhase = "selection"
  /\ ~isLocked
  /\ timers = <<>>

\* None of the desperation, preservation and endgame rules applies.
NoRuleApplies ==
  /\ NoScoreRuleFires
  /\ ~(10 - currentTurn <= 3 /\ JsSub(cpuScore, playerScore) <= 0)

\* The cards of the pool in the 4..6 band.
MiddleBand == {c \in SeqToSet(cpuCards) : c >= 4 /\ c <= 6}

Returned(value) == [completion |-> "return", value |-> value]
Thrown(value) == [completion |-> "throw", value |-> value]

\* The outcomes of lastOp that are early returns of the two handlers.
CardClickRejections == {"locked", "wrongPhase", "usedCard"}
ConfirmRejections == {"locked", "noSelection", "wrongPhase"}

\* handleCardClick throwing an error that names its early return.
handleCardClickResult_SignalsErrors(outcome) ==
  IF outcome = "usedCard" THEN Thrown("InvalidCardError")
  ELSE IF outcome \in CardClickRejections THEN Thrown("InvalidPhaseError")
  ELSE Returned("undefined")

\* The completion of handleCardClick on the path lastOp names: each early
\* return is a bare 'return;' and the accepted path falls off the end.
handleCardClickResult(outcome) == Returned("undefined")

\* The completion of the async handleConfirm: a promise, fulfilled with the
\* value of the bare 'return;' of a rejection, or with that of the end of the
\* function body once the turn has been played.
handleConfirmResult(outcome) ==
  [completion |-> "return", value |-> "promise", fulfilledWith |-> "undefined"]

\* This step is a rejected card click or a rejected Confirm.
IsRejectedStep ==
  \/ lastOp'.handler = "handleCardClick" /\ lastOp'.outcome \in CardClickRejections
  \/ lastOp'.handler = "handleConfirm" /\ lastOp'.outcome \in ConfirmRejections

C32_LostMatchLeavesTheHighScore ==
  [][IsCompletionStep /\ (MatchWinner = "cpu")'
       => /\ UNCHANGED <<highScore, storage>>
          /\ timers'[1].kind = "modal" /\ ~timers'[1].isNewRecord]_vars

\* C33: while the phase is 'selection' each side has used exactly
\* currentTurn - 1 cards and holds 10 - currentTurn, and in the 'complete'
\* phase each side has used all nine: both sides have always played the same
\* number of cards.
C33_UsedCardsFollowTheTurn ==
  /\ gamePhase = "selection"
       => /\ BagCardinality(playerUsedCards) = currentTurn - 1
          /\ BagCardinality(cpuUsedCards) = currentTurn - 1
          /\ Len(playerCards) = 10 - currentTurn
          /\ Len(cpuCards) = 10 - currentTurn
  /\ gamePhase = "complete"
       => /\ BagCardinality(playerUsedCards) = NumCards
          /\ BagCardinality(cpuUsedCards) = NumCards
  /\ gamePhase \in {"selection", "complete"}
       => BagCardinality(playerUsedCards) = BagCardinality(cpuUsedCards)

\* C33 within the first match, before any New Game.
C33_FirstMatchOnly == match = 0 => C33_UsedCardsFollowTheTurn

\* The guards of the desperation or preservation rule and of the endgame rule
\* of cpuSelectCard hold together in this state.
ScoreRuleAndEndgameGuards ==
  /\ ~NoScoreRuleFires
  /\ 10 - currentTurn <= 3
  /\ JsSub(cpuScore, playerScore) <= 0

\* C34: at every call of cpuSelectCard (the end of a thinking delay) the CPU
\* holds exactly 10 - currentTurn cards, so the desperation and preservation
\* rules can fire only on turns 1..6, and the guard of rule 1 or 2 never holds
\* together with the guard of rule 3.
C34_CpuHoldsTenMinusTurnCards ==
  [][ThinkingDelayEnded
       => /\ Len(cpuCards) = 10 - currentTurn
          /\ ~NoScoreRuleFires => currentTurn <= 6
          /\ ~ScoreRuleAndEndgameGuards]_vars

\* The second and third clauses of C34 alone.
C34_RulesNeverOverlap ==
  [][ThinkingDelayEnded
       => /\ ~NoScoreRuleFires => currentTurn <= 6
          /\ ~ScoreRuleAndEndgameGuards]_vars

\* C34 within the first match, before any New Game.
C34_FirstMatchOnly ==
  [][ThinkingDelayEnded /\ match = 0
       => /\ Len(cpuCards) = 10 - currentTurn
          /\ ~NoScoreRuleFires => currentTurn <= 6
          /\ ~ScoreRuleAndEndgameGuards]_vars

\* The step starts a game: a symbol is chosen or New Game is pressed.
TttGameStarts == ticTacToe'.lastOp.handler \in {"handleSymbolSelect", "resetGame"}

\* The step is a game-over event: one of wins, losses and draws changes.
GameOverEvent == ticTacToe'.sessionStats /= ticTacToe.sessionStats

\* C35: a game-over event ends a game that was not over and increments
\* exactly one of wins, losses and draws by one (wins iff the completed line
\* carries the player's symbol, losses iff the CPU's, draws iff the board is
\* full with no completed line); once a game is over no step of that game
\* places a mark or records it again.
C35_OneGameOverEventPerGame ==
  /\ [][GameOverEvent
          => LET old == ticTacToe.sessionStats
                 new == ticTacToe'.sessionStats
                 line == checkWin(ticTacToe'.board)
             IN  /\ ~ticTacToe.gameOver
                 /\ ticTacToe'.gameOver
                 /\ new = IF line = ticTacToe.playerSymbol
                            THEN [old EXCEPT !.wins = @ + 1]
                          ELSE IF line = ticTacToe.cpuSymbol
                            THEN [old EXCEPT !.losses = @ + 1]
                          ELSE [old EXCEPT !.draws = @ + 1]
                 /\ line = "null" => checkDraw(ticTacToe'.board)]_vars
  /\ [][ticTacToe.gameOver /\ ~TttGameStarts
          => /\ ticTacToe'.board = ticTacToe.board
             /\ ticTacToe'.sessionStats = ticTacToe.sessionStats
             /\ ticTacToe'.gameOver]_vars

\* C35 in a session in which New Game is not pressed.
C35_WithoutNewGame ==
  /\ [][GameOverEvent /\ ticTacToe.games = 0 /\ ticTacToe'.games = 0
          => LET old == ticTacToe.sessionStats
                 new == ticTacToe'.sessionStats
                 line == checkWin(ticTacToe'.board)
             IN  /\ ~ticTacToe.gameOver
                 /\ ticTacToe'.gameOver
                 /\ new = IF line = ticTacToe.playerSymbol
                            THEN [old EXCEPT !.wins = @ + 1]
                          ELSE IF line = ticTacToe.cpuSymbol
                            THEN [old EXCEPT !.losses = @ + 1]
                          ELSE [old EXCEPT !.draws = @ + 1]
                 /\ line = "null" => checkDraw(ticTacToe'.board)]_vars
  /\ [][ticTacToe.gameOver /\ ~TttGameStarts /\ ticTacToe.games = 0
          => /\ ticTacToe'.board = ticTacToe.board
             /\ ticTacToe'.sessionStats = ticTacToe.sessionStats
             /\ ticTacToe'.gameOver]_vars

\* The step submits a score: handleGameComplete calls saveMemoryGameScore.
ScoreSubmitted == Len(memoryGame'.submitted) > Len(memoryGame.submitted)

\* C36: every score submitted to saveMemoryGameScore is at least 8, and it is
\* submitted for the game in progress, all 16 cards of which are matched, as
\* that game's move count.
C36_SubmittedScoreIsTheFinalMoveCount ==
  /\ [](\A i \in 1..Len(memoryGame.submitted) :
          memoryGame.submitted[i].score >= NumMemoryCards \div 2)
  /\ [][ScoreSubmitted
          => LET entry == memoryGame'.submitted[Len(memoryGame'.submitted)]
             IN  /\ entry.game = memoryGame.games
                 /\ Cardinality(memoryGame.matchedIndices) = NumMemoryCards
                 /\ entry.score = memoryGame.moves]_vars

\* C36 in a session in which New Game is not pressed.
C36_WithoutNewGame ==
  /\ [](memoryGame.games <= 1
          => \A i \in 1..Len(memoryGame.submitted) :
               memoryGame.submitted[i].score >= NumMemoryCards \div 2)
  /\ [][ScoreSubmitted /\ memoryGame.games <= 1
          => LET entry == memoryGame'.submitted[Len(memoryGame'.submitted)]
             IN  /\ entry.game = memoryGame.games
                 /\ Cardinality(memoryGame.matchedIndices) = NumMemoryCards
                 /\ entry.score = memoryGame.moves]_vars

\* The step flips the second card of a pair: handleMatch or handleMismatch runs.
SecondCardFlipped == memoryGame'.lastOp.outcome \in {"match", "mismatch"}

\* The step starts a game: init() or resetGame().
MemGameStarts == memoryGame'.lastOp.handler \in {"init", "resetGame"}

\* C37: moves is 0 when a game starts, a step that flips the second card of
\* a pair (match or mismatch) adds exactly 1 to it, and no other step changes
\* it; so moves is the number of matched pairs plus the number of mismatched
\* pairs flipped in the game.
C37_MovesCountTheSecondFlips ==
  /\ [](memoryGame.moves
          = Cardinality(memoryGame.matchedIndices) \div 2 + memoryGame.mismatches)
  /\ [][/\ MemGameStarts => memoryGame'.moves = 0
        /\ SecondCardFlipped
             => /\ Len(memoryGame.flippedIndices) = 1
                /\ memoryGame'.moves = memoryGame.moves + 1
        /\ ~MemGameStarts /\ ~SecondCardFlipped
             => memoryGame'.moves = memoryGame.moves]_vars

\* Three moves into a game: one pair matched, two mismatched, and a first card
\* flipped again.
C37_Witness ==
  /\ memoryGame.moves = 3
  /\ Cardinality(memoryGame.matchedIndices) = 2
  /\ memoryGame.mismatches = 2
  /\ Len(memoryGame.flippedIndices) = 1
  /\ memoryGame.lastOp = MemOp("handleCardClick", "flipped")

\* endGame() has run and startGame() has not run since.
WhackGameEnded == whackAMole.endGames >= 1

\* C38: after endGame and until the next startGame, gameActive is false,
\* every hole is empty and no countdown interval, spawn timeout or auto-hide
\* timeout is pending; no step changes holes, score or timeRemaining, and
\* endGame does not run again.
C38_NothingRunsAfterEndGame ==
  /\ [](WhackGameEnded
          => /\ ~whackAMole.gameActive
             /\ whackAMole.holes = NoHoles
             /\ whackAMole.intervals = 0
             /\ whackAMole.spawnTimers = 0
             /\ whackAMole.hideTimers = <<>>)
  /\ [][WhackGameEnded /\ ~GameStartedNow
          => /\ whackAMole'.holes = whackAMole.holes
             /\ whackAMole'.score = whackAMole.score
             /\ whackAMole'.timeRemaining = whackAMole.timeRemaining
             /\ whackAMole'.endGames = whackAMole.endGames]_vars

\* The clauses of C38 about the state: the game is inactive and the holes are
\* empty after endGame.
C38_InactiveAndEmpty ==
  WhackGameEnded => ~whackAMole.gameActive /\ whackAMole.holes = NoHoles

\* The clause of C38 about what changes after endGame.
C38_NothingChanges ==
  [][WhackGameEnded /\ ~GameStartedNow
       => /\ whackAMole'.holes = whackAMole.holes
          /\ whackAMole'.score = whackAMole.score
          /\ whackAMole'.timeRemaining = whackAMole.timeRemaining
          /\ whackAMole'.endGames = whackAMole.endGames]_vars

\* C38 in a session of one game: Start is pressed once and Reset never.
C38_SingleGame ==
  /\ [](WhackGameEnded /\ whackAMole.games = 1
          => /\ ~whackAMole.gameActive
             /\ whackAMole.holes = NoHoles
             /\ whackAMole.intervals = 0
             /\ whackAMole.spawnTimers = 0
             /\ whackAMole.hideTimers = <<>>)
  /\ [][WhackGameEnded /\ ~GameStartedNow /\ whackAMole.games = 1
          => /\ whackAMole'.holes = whackAMole.holes
             /\ whackAMole'.score = whackAMole.score
             /\ whackAMole'.timeRemaining = whackAMole.timeRemaining
             /\ whackAMole'.endGames = whackAMole.endGames]_vars

====
